---- MODULE Spec2Model ----
(***************************************************************************)
(* Real-time synchronisation core of the serve command: the FileWatcher    *)
(* (debounced chokidar events mapped to semantic events), the WebSocket    *)
(* handler (per-project subscriber sets, one FileWatcher per project,      *)
(* initial snapshot, broadcast) and the connection life cycle.            *)
(***************************************************************************)
EXTENDS Integers, Sequences, FiniteSets, TLC

\* ------------------------------------------------------------------ bounds
MaxWatchers == 2
MaxBurst == 3
MaxTimeouts == 2
MaxEntries == 3
MaxSignals == 2
MaxSockets == 3
MaxAttempts == 8

\* ----------------------------------------------------------------- domains
Null == "null"
Clients == {"c1", "c2"}
Projects == {"P1", "P2"}

\* The resolved directory of each project, as path components.  The name of a
\* project directory is free: that of P2 contains a task-ID-like part.
ProjectDir(p) == IF p = "P1" THEN <<"work", "alpha">> ELSE <<"work", "TASK7-fix">>

\* Files under the state root, as path components relative to it.
StatusFile == <<"TASK1", "execution.json">>
PromptFile == <<"AI_PROMPT.md">>
StrayStatusFile == <<"execution.json">>
Files == {StatusFile, PromptFile, StrayStatusFile}

\* Contents of a status document on disk.
Absent == "absent"
ValidJson == "{\"status\":\"completed\"}"
Garbage == "invalid json {"
Contents == {ValidJson, Garbage}
\* A status document that exists and cannot be read.
Unreadable == "EACCES"
\* A status document that carries a taskId field of its own.
OwnIdJson == "{\"taskId\":\"TASK9\",\"status\":\"pending\"}"
\* A status document that has a field named execution.
NestedJson == "{\"status\":\"completed\",\"execution\":{\"status\":\"in_progress\"}}"

VARIABLES
    stateRoot,        \* stateRoot[p]: <p>/.claudiomiro/task-executor exists on disk
    disk,             \* disk[p]: content of TASK1/execution.json of p, or Absent
    conn,             \* conn[c]: life cycle of client c's socket
    currentProject,   \* ws.currentProject of each socket
    projectClients,   \* Map projectPath -> Set<WebSocket>
    projectWatchers,  \* Map projectPath -> FileWatcher (index into fileWatchers)
    fileWatchers,     \* every FileWatcher constructed so far
    closed,           \* wss.close() has been called
    sent,             \* frames delivered to each client by the last step
    emitted,          \* semantic events emitted by a FileWatcher in the last step
    snapshotOf,       \* project of the last project:state frame a socket received
    last,             \* the last operation and its arguments (and, for a call of a
                      \* pure function, its inputs and its result)
    server,           \* the serve process: its HTTP server and the calls its
                      \* signal handler has made
    wsClient          \* the browser's WebSocket client (public/js/websocket.js)

vars == <<stateRoot, disk, conn, currentProject, projectClients, projectWatchers,
          fileWatchers, closed, sent, emitted, snapshotOf, last, server, wsClient>>

\* ------------------------------------------------------------- path helpers
getTaskExecutorPath(p) == ProjectDir(p) \o <<".claudiomiro", "task-executor">>

FullPath(p, f) == getTaskExecutorPath(p) \o f

basename(path) == path[Len(path)]

\* The spelling of a file or directory name, cut into the pieces the patterns
\* tell apart: the letters TASK, a maximal run of digits, any other text.
Spelling(name) ==
    CASE name = "TASK1" -> <<"TASK", "1">>
      [] name = "TASK2" -> <<"TASK", "2">>
      [] name = "TASK10" -> <<"TASK", "10">>
      [] name = "TASK1.1" -> <<"TASK", "1", ".", "1">>
      [] name = "TASK7-fix" -> <<"TASK", "7", "-fix">>
      [] OTHER -> <<name>>

Digits == {"1", "2", "7", "10"}

\* The match of /TASK\d+/ inside one path component, or Null: the leftmost TASK
\* that digits follow, with all of those digits.
TaskMatch(comp) ==
    LET sp == Spelling(comp)
        hits == {i \in 1..(Len(sp) - 1) : sp[i] = "TASK" /\ sp[i + 1] \in Digits}
    IN  IF hits = {} THEN Null
        ELSE LET i == CHOOSE k \in hits : \A j \in hits : k <= j
             IN  "TASK" \o sp[i + 1]

\* filePath.match(/TASK\d+/): the first match, scanning the path left to right.
RECURSIVE FirstTaskMatch(_)
FirstTaskMatch(path) ==
    IF path = <<>> THEN Null
    ELSE IF TaskMatch(Head(path)) # Null THEN TaskMatch(Head(path))
    ELSE FirstTaskMatch(Tail(path))

\* JSON.parse(fs.readFileSync(...)): the parsed fields, or a failure.
ParseOk(content) == content \in {ValidJson, OwnIdJson, NestedJson}
ParsedFields(content) ==
    IF content = OwnIdJson THEN [taskId |-> "TASK9", status |-> "pending"]
    ELSE IF content = NestedJson
    THEN [status |-> "completed", execution |-> [status |-> "in_progress"]]
    ELSE [status |-> "completed"]

\* The object literal { ...a, ...b }: the fields of b win.
Spread(a, b) ==
    [k \in (DOMAIN a) \cup (DOMAIN b) |-> IF k \in DOMAIN b THEN b[k] ELSE a[k]]

\* ------------------------------------------------------------- FileWatcher
NoEvent == [event |-> Null, data |-> [none |-> TRUE]]
\* _mapToEvent whose review case lacks the task-ID guard.
mapToEvent_ReviewUnguarded(filePath, content) ==
    LET fileName == basename(filePath)
        taskId == FirstTaskMatch(filePath)
    IN  CASE fileName = "execution.json" ->
                IF taskId = Null THEN NoEvent
                ELSE IF ParseOk(content)
                     THEN [event |-> "task:status",
                           data |-> Spread([taskId |-> taskId], ParsedFields(content))]
                     ELSE [event |-> "task:status",
                           data |-> [taskId |-> taskId,
                                     error |-> "Failed to parse execution.json"]]
          [] fileName = "BLUEPRINT.md" ->
                IF taskId = Null THEN NoEvent
                ELSE [event |-> "task:blueprint", data |-> [taskId |-> taskId]]
          [] fileName = "CODE_REVIEW.md" ->
                [event |-> "task:review", data |-> [taskId |-> taskId]]
          [] fileName = "AI_PROMPT.md" ->
                [event |-> "prompt:changed", data |-> [empty |-> TRUE]]
          [] fileName = "done.txt" ->
                [event |-> "project:completed", data |-> [empty |-> TRUE]]
          [] OTHER ->
                [event |-> "file:changed", data |-> [path |-> filePath]]
\* _mapToEvent without the try/catch around the read and parse of the status
\* document: the exception ends the timer callback before the emit.
mapToEvent_ParseUncaught(filePath, content) ==
    LET fileName == basename(filePath)
        taskId == FirstTaskMatch(filePath)
    IN  CASE fileName = "execution.json" ->
                IF taskId = Null THEN NoEvent
                ELSE IF ParseOk(content)
                     THEN [event |-> "task:status",
                           data |-> Spread([taskId |-> taskId], ParsedFields(content))]
                     ELSE NoEvent
          [] fileName = "BLUEPRINT.md" ->
                IF taskId = Null THEN NoEvent
                ELSE [event |-> "task:blueprint", data |-> [taskId |-> taskId]]
          [] fileName = "CODE_REVIEW.md" ->
                IF taskId = Null THEN NoEvent
                ELSE [event |-> "task:review", data |-> [taskId |-> taskId]]
          [] fileName = "AI_PROMPT.md" ->
                [event |-> "prompt:changed", data |-> [empty |-> TRUE]]
          [] fileName = "done.txt" ->
                [event |-> "project:completed", data |-> [empty |-> TRUE]]
          [] OTHER ->
                [event |-> "file:changed", data |-> [path |-> filePath]]

mapToEvent(filePath, content) ==
    LET fileName == basename(filePath)
        taskId == FirstTaskMatch(filePath)
    IN  CASE fileName = "execution.json" ->
                IF taskId = Null THEN NoEvent
                ELSE IF ParseOk(content)
                     THEN [event |-> "task:status",
                           data |-> Spread([taskId |-> taskId], ParsedFields(content))]
                     ELSE [event |-> "task:status",
                           data |-> [taskId |-> taskId,
                                     error |-> "Failed to parse execution.json"]]
          [] fileName = "BLUEPRINT.md" ->
                IF taskId = Null THEN NoEvent
                ELSE [event |-> "task:blueprint", data |-> [taskId |-> taskId]]
          [] fileName = "CODE_REVIEW.md" ->
                IF taskId = Null THEN NoEvent
                ELSE [event |-> "task:review", data |-> [taskId |-> taskId]]
          [] fileName = "AI_PROMPT.md" ->
                [event |-> "prompt:changed", data |-> [empty |-> TRUE]]
          [] fileName = "done.txt" ->
                [event |-> "project:completed", data |-> [empty |-> TRUE]]
          [] OTHER ->
                [event |-> "file:changed", data |-> [path |-> filePath]]

\* A FileWatcher object.  watcher: this.watcher is not null; debounceTimers: the
\* keys of this.debounceTimers; timeouts[f]: the timeouts for f still pending in
\* the event loop; listeners: the handler's listeners are attached; ready:
\* chokidar has finished its initial scan.
NewWatcher(p) ==
    [project |-> p, watcher |-> FALSE, debounceTimers |-> {},
     timeouts |-> [f \in Files |-> 0], listeners |-> FALSE, ready |-> FALSE]

start(w) == [w EXCEPT !.watcher = TRUE]
\* FileWatcher.stop that closes chokidar but leaves the debounce timers pending.
stop_KeepTimers(w) ==
    [w EXCEPT !.watcher = FALSE, !.ready = FALSE]

stop(w) ==
    [w EXCEPT !.watcher = FALSE,
              !.ready = FALSE,
              !.timeouts = [f \in Files |->
                              IF f \in w.debounceTimers /\ w.timeouts[f] > 0
                              THEN w.timeouts[f] - 1 ELSE w.timeouts[f]],
              !.debounceTimers = {}]
\* _handleFileChange without the clearTimeout of the file's pending timer.
handleFileChange_NoClear(w, f) ==
    [w EXCEPT !.timeouts = [w.timeouts EXCEPT ![f] = w.timeouts[f] + 1],
              !.debounceTimers = w.debounceTimers \cup {f}]

\* _handleFileChange with one timer for the whole watcher instead of one per path.
handleFileChange_SingleTimer(w, f) ==
    [w EXCEPT !.timeouts = [g \in Files |-> IF g = f THEN 1 ELSE 0],
              !.debounceTimers = {f}]

handleFileChange(w, f) ==
    LET cleared == IF f \in w.debounceTimers /\ w.timeouts[f] > 0
                   THEN w.timeouts[f] - 1 ELSE w.timeouts[f]
    IN  [w EXCEPT !.timeouts = [w.timeouts EXCEPT ![f] = cleared + 1],
                  !.debounceTimers = w.debounceTimers \cup {f}]

\* The body of the timeout callback, up to the emit.
timerFired(w, f) ==
    [w EXCEPT !.timeouts = [w.timeouts EXCEPT ![f] = w.timeouts[f] - 1],
              !.debounceTimers = w.debounceTimers \ {f}]

\* -------------------------------------------------------- WebSocket handler
Remove(m, k) == [x \in (DOMAIN m) \ {k} |-> m[x]]
Put(m, k, v) == [x \in (DOMAIN m) \cup {k} |-> IF x = k THEN v ELSE m[x]]
EmptyMap == [x \in {} |-> Null]

\* The handler's mutable state, threaded through the calls of one event handler.
Hub ==
    [clients |-> projectClients, watchers |-> projectWatchers,
     fw |-> fileWatchers, current |-> currentProject]

\* The number a run of digits stands for.
Num(d) ==
    CASE d = "1" -> 1
      [] d = "2" -> 2
      [] d = "7" -> 7
      [] d = "10" -> 10

\* The collation class of a piece of a name: punctuation sorts before digits,
\* digits before letters.
Rank(piece) ==
    IF piece \in Digits THEN 1 ELSE IF piece \in {".", "-fix"} THEN 0 ELSE 2

Sign(n) == IF n < 0 THEN -1 ELSE IF n > 0 THEN 1 ELSE 0

\* Numeric-aware comparison of two spellings, piece by piece: runs of digits
\* compare by value, a proper prefix sorts first.
RECURSIVE ComparePieces(_, _)
ComparePieces(x, y) ==
    IF x = <<>> /\ y = <<>> THEN 0
    ELSE IF x = <<>> THEN -1
    ELSE IF y = <<>> THEN 1
    ELSE IF Head(x) = Head(y) THEN ComparePieces(Tail(x), Tail(y))
    ELSE IF Head(x) \in Digits /\ Head(y) \in Digits
         THEN Sign(Num(Head(x)) - Num(Head(y)))
    ELSE CASE Rank(Head(x)) # Rank(Head(y)) -> Sign(Rank(Head(x)) - Rank(Head(y)))
\* a.localeCompare(b) without the numeric option: digits compare as characters.
localeCompare_NotNumeric(a, b) ==
    LET Lex(n) == CASE n = "TASK1" -> 1 [] n = "TASK10" -> 2 [] n = "TASK2" -> 3
                    [] OTHER -> 4
    IN  Sign(Lex(a) - Lex(b))

\* a.localeCompare(b, undefined, { numeric: true })
localeCompare(a, b) == ComparePieces(Spelling(a), Spelling(b))

\* Array.prototype.sort of directory entries by name with localeCompare (stable).
RECURSIVE Insert(_, _)
Insert(sorted, e) ==
    IF sorted = <<>> THEN <<e>>
    ELSE IF localeCompare(sorted[Len(sorted)].name, e.name) <= 0
         THEN Append(sorted, e)
         ELSE Append(Insert(SubSeq(sorted, 1, Len(sorted) - 1), e),
                     sorted[Len(sorted)])

RECURSIVE sort(_)
sort(entries) ==
    IF entries = <<>> THEN <<>>
    ELSE Insert(sort(SubSeq(entries, 1, Len(entries) - 1)), entries[Len(entries)])

\* An entry of the state root as readdirSync lists it: its name, what statSync
\* says of it ("dir", "file", or "unreadable" when statSync throws), and for a
\* directory the content of its execution.json.
Entry(name, kind, doc) == [name |-> name, kind |-> kind, doc |-> doc]

\* /^TASK\d+/.test(name): the name of a task directory, as the snapshot selects
\* it.
IsTaskDir(name) ==
    LET sp == Spelling(name)
    IN  Len(sp) >= 2 /\ sp[1] = "TASK" /\ sp[2] \in Digits
\* getInitialState that leaves out a task whose status document fails to parse.
getInitialState_OmitFailed(p, root, listing) ==
    IF ~root
    THEN [projectPath |-> p, tasks |-> EmptyMap, order |-> <<>>,
          error |-> "Failed to read project state"]
    ELSE LET tasks == sort(SelectSeq(listing,
                             LAMBDA e : e.kind = "dir" /\ IsTaskDir(e.name)))
             read == SelectSeq(tasks, LAMBDA e : ParseOk(e.doc))
         IN  [projectPath |-> p,
              tasks |-> [n \in {read[i].name : i \in 1..Len(read)} |->
                           LET e == CHOOSE x \in {read[i] : i \in 1..Len(read)} :
                                       x.name = n
                           IN  ParsedFields(e.doc)],
              order |-> [i \in 1..Len(read) |-> read[i].name]]
\* getInitialState in which a directory entry that cannot be stat'd fails the
\* whole snapshot.
getInitialState_StatFatal(p, root, listing) ==
    IF ~root \/ \E i \in 1..Len(listing) : listing[i].kind = "unreadable"
    THEN [projectPath |-> p, tasks |-> EmptyMap, order |-> <<>>,
          error |-> "Failed to read project state"]
    ELSE LET tasks == sort(SelectSeq(listing,
                             LAMBDA e : e.kind = "dir" /\ IsTaskDir(e.name)))
             read == SelectSeq(tasks, LAMBDA e : e.doc # Absent)
         IN  [projectPath |-> p,
              tasks |-> [n \in {read[i].name : i \in 1..Len(read)} |->
                           LET e == CHOOSE x \in {read[i] : i \in 1..Len(read)} :
                                       x.name = n
                           IN  IF ParseOk(e.doc) THEN ParsedFields(e.doc)
                               ELSE [error |-> "Failed to parse execution.json"]],
              order |-> [i \in 1..Len(read) |-> read[i].name]]

\* The snapshot of project p: root is whether the state root can be listed,
\* listing what readdirSync returns.  tasks is the taskStates object and order
\* the order in which its keys were inserted (the order JSON.stringify keeps).
getInitialState(p, root, listing) ==
    IF ~root
    THEN [projectPath |-> p, tasks |-> EmptyMap, order |-> <<>>,
          error |-> "Failed to read project state"]
    ELSE LET tasks == sort(SelectSeq(listing,
                             LAMBDA e : e.kind = "dir" /\ IsTaskDir(e.name)))
             read == SelectSeq(tasks, LAMBDA e : e.doc # Absent)
         IN  [projectPath |-> p,
              tasks |-> [n \in {read[i].name : i \in 1..Len(read)} |->
                           LET e == CHOOSE x \in {read[i] : i \in 1..Len(read)} :
                                       x.name = n
                           IN  IF ParseOk(e.doc) THEN ParsedFields(e.doc)
                               ELSE [error |-> "Failed to parse execution.json"]],
              order |-> [i \in 1..Len(read) |-> read[i].name]]

\* The listing of a state root that holds the one task directory TASK1 whose
\* status document has the given content.
Listing(content) == <<Entry("TASK1", "dir", content)>>
\* broadcast that sends to every member of the set without looking at its
\* readyState.
broadcast_NoReadyCheck(h, p) ==
    IF p \notin DOMAIN h.clients THEN {} ELSE h.clients[p]

\* broadcast that reaches every open client, whatever project it subscribed to.
broadcast_EveryClient(h, p) == {c \in Clients : conn[c] = "open"}

\* The members of p's set a broadcast reaches: those whose readyState is OPEN.
broadcast(h, p) ==
    IF p \notin DOMAIN h.clients THEN {}
    ELSE {c \in h.clients[p] : conn[c] = "open"}
\* unsubscribeClient that leaves the watcher registered and running when the
\* last subscriber goes.
unsubscribeClient_KeepWatcher(h, ws, p) ==
    IF p \notin DOMAIN h.clients THEN h
    ELSE LET cs == h.clients[p] \ {ws}
         IN  IF cs # {}
             THEN [h EXCEPT !.clients = Put(h.clients, p, cs)]
             ELSE [h EXCEPT !.clients = Remove(h.clients, p)]

\* unsubscribeClient that forgets the watcher of the emptied set without
\* stopping it.
unsubscribeClient_NoStop(h, ws, p) ==
    IF p \notin DOMAIN h.clients THEN h
    ELSE LET cs == h.clients[p] \ {ws}
         IN  IF cs # {}
             THEN [h EXCEPT !.clients = Put(h.clients, p, cs)]
             ELSE [h EXCEPT !.clients = Remove(h.clients, p),
                            !.watchers = Remove(h.watchers, p)]
\* unsubscribeClient that does not delete the client from the set.
unsubscribeClient_NoDelete(h, ws, p) ==
    IF p \notin DOMAIN h.clients THEN h
    ELSE LET cs == h.clients[p]
         IN  IF cs # {}
             THEN h
             ELSE [h EXCEPT !.clients = Remove(h.clients, p)]

\* unsubscribeClient that stops the watcher whenever a subscriber leaves.
unsubscribeClient_StopAlways(h, ws, p) ==
    IF p \notin DOMAIN h.clients THEN h
    ELSE LET cs == h.clients[p] \ {ws}
             hs == IF p \in DOMAIN h.watchers
                   THEN [h EXCEPT !.fw = [h.fw EXCEPT ![h.watchers[p]] = stop(@)],
                                  !.watchers = Remove(h.watchers, p)]
                   ELSE h
         IN  IF cs # {}
             THEN [hs EXCEPT !.clients = Put(h.clients, p, cs)]
             ELSE [hs EXCEPT !.clients = Remove(h.clients, p)]

unsubscribeClient(h, ws, p) ==
    IF p \notin DOMAIN h.clients THEN h
    ELSE LET cs == h.clients[p] \ {ws}
         IN  IF cs # {}
             THEN [h EXCEPT !.clients = Put(h.clients, p, cs)]
             ELSE IF p \in DOMAIN h.watchers
                  THEN [h EXCEPT !.clients = Remove(h.clients, p),
                                 !.fw = [h.fw EXCEPT ![h.watchers[p]] = stop(@)],
                                 !.watchers = Remove(h.watchers, p)]
                  ELSE [h EXCEPT !.clients = Remove(h.clients, p)]
\* subscribeClient that does not leave the previous project's set.
subscribeClient_NoLeave(h, ws, p, rootExists) ==
    LET set == IF p \in DOMAIN h.clients THEN h.clients[p] ELSE {}
        h1 == [h EXCEPT !.clients = Put(h.clients, p, set \cup {ws}),
                        !.current = [h.current EXCEPT ![ws] = p]]
    IN  IF p \in DOMAIN h1.watchers \/ ~rootExists THEN h1
        ELSE [h1 EXCEPT
                !.fw = Append(h1.fw, [start(NewWatcher(p)) EXCEPT !.listeners = TRUE]),
                !.watchers = Put(h1.watchers, p, Len(h1.fw) + 1)]
\* subscribeClient that registers the watcher and attaches its listeners before
\* start() is called, and keeps them when start() throws.
subscribeClient_RegisterFirst(h, ws, p, rootExists) ==
    LET h0 == IF h.current[ws] # Null
              THEN unsubscribeClient(h, ws, h.current[ws]) ELSE h
        set == IF p \in DOMAIN h0.clients THEN h0.clients[p] ELSE {}
        h1 == [h0 EXCEPT !.clients = Put(h0.clients, p, set \cup {ws}),
                         !.current = [h0.current EXCEPT ![ws] = p]]
        w == IF rootExists THEN start(NewWatcher(p)) ELSE NewWatcher(p)
    IN  IF p \in DOMAIN h1.watchers THEN h1
        ELSE [h1 EXCEPT
                !.fw = Append(h1.fw, [w EXCEPT !.listeners = TRUE]),
                !.watchers = Put(h1.watchers, p, Len(h1.fw) + 1)]

\* subscribeClient up to the snapshot; rootExists is what fs.existsSync answers
\* inside watcher.start().
subscribeClient(h, ws, p, rootExists) ==
    LET h0 == IF h.current[ws] # Null
              THEN unsubscribeClient(h, ws, h.current[ws]) ELSE h
        set == IF p \in DOMAIN h0.clients THEN h0.clients[p] ELSE {}
        h1 == [h0 EXCEPT !.clients = Put(h0.clients, p, set \cup {ws}),
                         !.current = [h0.current EXCEPT ![ws] = p]]
    IN  IF p \in DOMAIN h1.watchers \/ ~rootExists THEN h1
        ELSE [h1 EXCEPT
                !.fw = Append(h1.fw, [start(NewWatcher(p)) EXCEPT !.listeners = TRUE]),
                !.watchers = Put(h1.watchers, p, Len(h1.fw) + 1)]

\* subscribeClient constructs a FileWatcher for p.
StartsWatcher(h, ws, p) ==
    LET h0 == IF h.current[ws] # Null
              THEN unsubscribeClient(h, ws, h.current[ws]) ELSE h
    IN  p \notin DOMAIN h0.watchers

\* ------------------------------------------------------------ path validator
\* A path string is a sequence of pieces: the separator, and pieces of names
\* (a name such as app-other is the pieces app and -other, so that the string
\* of /srv/app is a prefix of the string of /srv/app-other).
sep == "/"

\* decodeURIComponent: the escapes %2F and %2E%2E decode to / and .., the
\* escape %252F of an escape to %2F; a lone % is malformed and makes it throw.
decodeURIComponent(str) ==
    IF \E i \in 1..Len(str) : str[i] = "%"
    THEN [ok |-> FALSE, value |-> <<>>]
    ELSE [ok |-> TRUE,
          value |-> [i \in 1..Len(str) |->
                       CASE str[i] = "%2F" -> sep
                         [] str[i] = "%2E%2E" -> ".."
                         [] str[i] = "%252F" -> "%2F"
                         [] OTHER -> str[i]]]

\* str.includes('..')
includesDotDot(str) == \E i \in 1..Len(str) : str[i] \in {"..", "v1..2"}

\* The names between the separators of a string, empty names included.
RECURSIVE Split(_)
Split(str) ==
    IF str = <<>> THEN << <<>> >>
    ELSE LET rest == Split(Tail(str))
         IN  IF Head(str) = sep THEN << <<>> >> \o rest
             ELSE << <<Head(str)>> \o Head(rest) >> \o Tail(rest)

\* The working directory of the server process, as names.
Cwd == << <<"srv">> >>

\* The names of a path after normalisation: empty names and . are dropped, ..
\* removes the name before it.
RECURSIVE Normalize(_, _)
Normalize(done, names) ==
    IF names = <<>> THEN done
    ELSE IF Head(names) \in {<<>>, <<".">>} THEN Normalize(done, Tail(names))
    ELSE IF Head(names) = <<"..">>
         THEN Normalize(IF done = <<>> THEN <<>>
                        ELSE SubSeq(done, 1, Len(done) - 1), Tail(names))
    ELSE Normalize(Append(done, Head(names)), Tail(names))

\* The string of an absolute path given by its names: / for the root.
RECURSIVE Join(_)
Join(names) ==
    IF names = <<>> THEN <<>>
    ELSE <<sep>> \o Head(names) \o Join(Tail(names))

PathString(names) == IF names = <<>> THEN <<sep>> ELSE Join(names)

\* path.resolve(str): the absolute, normalised path string; a relative path is
\* resolved against the working directory.
resolve(str) ==
    IF str # <<>> /\ Head(str) = sep
    THEN PathString(Normalize(<<>>, Split(str)))
    ELSE PathString(Normalize(Cwd, Split(str)))

startsWith(str, prefix) ==
    Len(prefix) <= Len(str) /\ SubSeq(str, 1, Len(prefix)) = prefix

\* allowedPaths.some(...): the resolved path is an allowed path or starts with
\* an allowed path followed by the separator.
isAllowed(resolvedPath, allowedPaths) ==
    \E allowedPath \in allowedPaths :
        LET resolvedAllowed == resolve(allowedPath)
        IN  \/ resolvedPath = resolvedAllowed
            \/ startsWith(resolvedPath, resolvedAllowed \o <<sep>>)

Rejected(error) == [valid |-> FALSE, error |-> error]
\* validateProjectPath with the existence check made before the allow-list
\* check.
validateProjectPath_ExistsFirst(projectPath, allowedPaths, kind) ==
    LET decodedPath == decodeURIComponent(projectPath)
        resolvedPath == resolve(decodedPath.value)
    IN  IF ~decodedPath.ok THEN Rejected("Invalid project path")
        ELSE IF includesDotDot(decodedPath.value)
        THEN Rejected("Path traversal detected - paths containing \"..\" are not allowed")
        ELSE IF kind = "missing" THEN Rejected("Project path does not exist")
        ELSE IF allowedPaths # {} /\ ~isAllowed(resolvedPath, allowedPaths)
        THEN Rejected("Project path is not in the allowed paths list")
        ELSE IF kind = "file" THEN Rejected("Project path is not a directory")
        ELSE IF kind = "bare"
        THEN Rejected("Project does not contain .claudiomiro/task-executor/ directory")
        ELSE [valid |-> TRUE, resolvedPath |-> resolvedPath]

\* validateProjectPath; kind is what the file system holds at the resolved
\* path: nothing ("missing"), a file, a directory without the state root
\* ("bare"), or a directory with it ("project").
validateProjectPath(projectPath, allowedPaths, kind) ==
    LET decodedPath == decodeURIComponent(projectPath)
        resolvedPath == resolve(decodedPath.value)
    IN  IF ~decodedPath.ok THEN Rejected("Invalid project path")
        ELSE IF includesDotDot(decodedPath.value)
        THEN Rejected("Path traversal detected - paths containing \"..\" are not allowed")
        ELSE IF allowedPaths # {} /\ ~isAllowed(resolvedPath, allowedPaths)
        THEN Rejected("Project path is not in the allowed paths list")
        ELSE IF kind = "missing" THEN Rejected("Project path does not exist")
        ELSE IF kind = "file" THEN Rejected("Project path is not a directory")
        ELSE IF kind = "bare"
        THEN Rejected("Project does not contain .claudiomiro/task-executor/ directory")
        ELSE [valid |-> TRUE, resolvedPath |-> resolvedPath]

\* The names of a project directory, each of one piece but TASK7-fix.
ProjectNames(p) ==
    [i \in 1..Len(ProjectDir(p)) |->
        IF ProjectDir(p)[i] = "TASK7-fix" THEN <<"TASK7", "-fix">>
        ELSE <<ProjectDir(p)[i]>>]

\* The project paths the server was started with (the handler's allowedPaths).
projectPaths == {PathString(ProjectNames(p)) : p \in Projects}

\* What the file system may hold at a resolved path.
Kinds == {"missing", "file", "bare", "project"}

\* The validation of a request for each project, by what its directory holds.
ProjectValidation ==
    [p \in Projects |->
        [kind \in Kinds |->
            validateProjectPath(PathString(ProjectNames(p)), projectPaths, kind)]]

\* The validation of a request for project p: the project directories exist,
\* with or without their state root.
ValidProject(p) ==
    ProjectValidation[p][IF stateRoot[p] THEN "project" ELSE "bare"].valid
\* ------------------------------------------------- serve process and browser
\* The serve process once startServer has resolved: wsHandler, createServer
\* returned a WebSocket handler; listening, the HTTP server holds its listening
\* socket; closing, the pending callbacks of httpServer.close(); calls, the
\* calls made by the signal handler and the close callback, in order; exited,
\* process.exit was called.
ServerStarted(wsHandler) ==
    [wsHandler |-> wsHandler, listening |-> TRUE, closing |-> 0, calls |-> <<>>,
     exited |-> FALSE]

\* The client script once loaded: ws, the index in sockets of the current
\* WebSocket (0: null); reconnectTimer, the delay of the reconnect timeout the
\* variable holds (0: null); sockets, every WebSocket constructed so far;
\* timeouts, the number of reconnect timeouts pending in the event loop;
\* tasks, window.Store.state.tasks.
WsClientLoaded ==
    [ws |-> 0, reconnectAttempts |-> 0, reconnectTimer |-> 0,
     currentProjectPath |-> Null, sockets |-> <<>>, timeouts |-> 0,
     tasks |-> <<>>]

\* ------------------------------------------------------------------ frames
StateFrame(p, root, content) ==
    [event |-> "project:state", data |-> getInitialState(p, root, Listing(content)),
     via |-> [project |-> p, watcher |-> 0]]
ErrorFrame ==
    [event |-> "error", data |-> [message |-> "Invalid project path"],
     via |-> [project |-> Null, watcher |-> 0]]
LiveFrame(ev, p, w) ==
    [event |-> ev.event, data |-> ev.data, via |-> [project |-> p, watcher |-> w]]

NoFrames == [c \in Clients |-> <<>>]
IsLive(fr) == fr.event \notin {"project:state", "error"}

\* The last operation: its name, the client and project it is about, the project
\* the client was subscribed to before (prev) and the size of that project's
\* set before (n, when the client was a member), the watcher and the file.
Op(op, c, p, prev, w, f, n) ==
    [op |-> op, c |-> c, p |-> p, prev |-> prev, w |-> w, f |-> f, n |-> n]

\* The size of p's subscriber set when c is a member of it, else 0.
SizeWith(c, p) ==
    IF p \in DOMAIN projectClients /\ c \in projectClients[p]
    THEN Cardinality(projectClients[p]) ELSE 0

\* -------------------------------------------------------------------- Init
Init ==
    /\ stateRoot = [p \in Projects |-> TRUE]
    /\ disk = [p \in Projects |-> Absent]
    /\ conn = [c \in Clients |-> "closed"]
    /\ currentProject = [c \in Clients |-> Null]
    /\ projectClients = EmptyMap
    /\ projectWatchers = EmptyMap
    /\ fileWatchers = <<>>
    /\ closed = FALSE
    /\ sent = NoFrames
    /\ emitted = <<>>
    /\ snapshotOf = [c \in Clients |-> Null]
    /\ last = Op("init", Null, Null, Null, 0, <<>>, 0)
    /\ server = ServerStarted(TRUE)
    /\ wsClient = WsClientLoaded
\* Subscribe whose snapshot frame is not sent inside the call.
Subscribe_NoSnapshot(c, p, vanish, h, delivered, opname) ==
    LET root == ~vanish
        h2 == subscribeClient(h, c, p, root)
        content == IF root THEN disk[p] ELSE Absent
    IN  /\ vanish => StartsWatcher(h, c, p)
        /\ (StartsWatcher(h, c, p) /\ root) => Len(fileWatchers) < MaxWatchers
        /\ stateRoot' = [stateRoot EXCEPT ![p] = root]
        /\ disk' = [disk EXCEPT ![p] = content]
        /\ projectClients' = h2.clients
        /\ projectWatchers' = h2.watchers
        /\ fileWatchers' = h2.fw
        /\ currentProject' = h2.current
        /\ sent' = NoFrames
        /\ snapshotOf' = snapshotOf
        /\ emitted' = <<>>
        /\ last' = Op(opname, c, p, h.current[c],
                      IF p \in DOMAIN h2.watchers THEN h2.watchers[p] ELSE 0,
                      <<>>, SizeWith(c, h.current[c]))

\* ----------------------------------------------------------------- actions
\* The effect of a subscribeClient call made by client c's handler on a valid
\* path p; vanish: the state root is removed by another process between the
\* validator's check and the check inside watcher.start().
Subscribe(c, p, vanish, h, delivered, opname) ==
    LET root == ~vanish
        h2 == subscribeClient(h, c, p, root)
        content == IF root THEN disk[p] ELSE Absent
        frame == StateFrame(p, root, content)
    IN  /\ vanish => StartsWatcher(h, c, p)
        /\ (StartsWatcher(h, c, p) /\ root) => Len(fileWatchers) < MaxWatchers
        /\ stateRoot' = [stateRoot EXCEPT ![p] = root]
        /\ disk' = [disk EXCEPT ![p] = content]
        /\ projectClients' = h2.clients
        /\ projectWatchers' = h2.watchers
        /\ fileWatchers' = h2.fw
        /\ currentProject' = h2.current
        /\ sent' = [NoFrames EXCEPT ![c] = IF delivered THEN <<frame>> ELSE <<>>]
        /\ snapshotOf' = IF delivered THEN [snapshotOf EXCEPT ![c] = p]
                         ELSE snapshotOf
        /\ emitted' = <<>>
        /\ last' = Op(opname, c, p, h.current[c],
                      IF p \in DOMAIN h2.watchers THEN h2.watchers[p] ELSE 0,
                      <<>>, SizeWith(c, h.current[c]))
\* handleConnection that subscribes the client without validating the path.
Connect_NoValidation(c, p) ==
    /\ conn[c] = "closed"
    /\ ~closed
    /\ IF TRUE
       THEN /\ conn' = [conn EXCEPT ![c] = "open"]
            /\ \E vanish \in BOOLEAN :
                 Subscribe(c, p, vanish, [Hub EXCEPT !.current[c] = Null], TRUE, "connect")
            /\ UNCHANGED closed
       ELSE /\ conn' = [conn EXCEPT ![c] = "rejected"]
            /\ currentProject' = [currentProject EXCEPT ![c] = Null]
            /\ snapshotOf' = [snapshotOf EXCEPT ![c] = Null]
            /\ sent' = [NoFrames EXCEPT ![c] = <<ErrorFrame>>]
            /\ emitted' = <<>>
            /\ last' = Op("reject", c, p, Null, 0, <<>>, 0)
            /\ UNCHANGED <<stateRoot, disk, projectClients, projectWatchers,
                           fileWatchers, closed>>
    /\ UNCHANGED <<server, wsClient>>

\* wss 'connection': handleConnection on a fresh socket (a server whose
\* wss.close() was called accepts no upgrade).  A rejected socket gets the error
\* frame and close(), and no message or close handler.
Connect(c, p) ==
    /\ conn[c] = "closed"
    /\ ~closed
    /\ IF ValidProject(p)
       THEN /\ conn' = [conn EXCEPT ![c] = "open"]
            /\ \E vanish \in BOOLEAN :
                 Subscribe(c, p, vanish, [Hub EXCEPT !.current[c] = Null], TRUE, "connect")
            /\ UNCHANGED closed
       ELSE /\ conn' = [conn EXCEPT ![c] = "rejected"]
            /\ currentProject' = [currentProject EXCEPT ![c] = Null]
            /\ snapshotOf' = [snapshotOf EXCEPT ![c] = Null]
            /\ sent' = [NoFrames EXCEPT ![c] = <<ErrorFrame>>]
            /\ emitted' = <<>>
            /\ last' = Op("reject", c, p, Null, 0, <<>>, 0)
            /\ UNCHANGED <<stateRoot, disk, projectClients, projectWatchers,
                           fileWatchers, closed>>
    /\ UNCHANGED <<server, wsClient>>

\* The message handler that subscribes the client without validating the path.
Message_NoValidation(c, p) ==
    /\ conn[c] \in {"open", "closing"}
    /\ IF TRUE
       THEN \E vanish \in BOOLEAN :
                Subscribe(c, p, vanish, Hub, conn[c] = "open", "resubscribe")
       ELSE /\ sent' = [NoFrames EXCEPT ![c] = IF conn[c] = "open"
                                               THEN <<ErrorFrame>> ELSE <<>>]
            /\ emitted' = <<>>
            /\ last' = Op("refuse", c, p, currentProject[c], 0, <<>>, 0)
            /\ UNCHANGED <<stateRoot, disk, currentProject, projectClients,
                           projectWatchers, fileWatchers, snapshotOf>>
    /\ UNCHANGED <<conn, closed>>
    /\ UNCHANGED <<server, wsClient>>

\* ws 'message': a subscribe:project request for path p.  A socket the server
\* has called close() on ("closing") can still deliver messages until its close
\* event; a frame sent to it is not delivered.
Message(c, p) ==
    /\ conn[c] \in {"open", "closing"}
    /\ IF ValidProject(p)
       THEN \E vanish \in BOOLEAN :
                Subscribe(c, p, vanish, Hub, conn[c] = "open", "resubscribe")
       ELSE /\ sent' = [NoFrames EXCEPT ![c] = IF conn[c] = "open"
                                               THEN <<ErrorFrame>> ELSE <<>>]
            /\ emitted' = <<>>
            /\ last' = Op("refuse", c, p, currentProject[c], 0, <<>>, 0)
            /\ UNCHANGED <<stateRoot, disk, currentProject, projectClients,
                           projectWatchers, fileWatchers, snapshotOf>>
    /\ UNCHANGED <<conn, closed>>
    /\ UNCHANGED <<server, wsClient>>

\* A path whose debounce timer is pending in the watcher that the close of
\* client c stops (c is the only subscriber of its project), or <<>>.
Cancelled(c) ==
    LET p == currentProject[c]
    IN  IF /\ conn[c] # "rejected"
           /\ SizeWith(c, p) = 1
           /\ p \in DOMAIN projectWatchers
           /\ fileWatchers[projectWatchers[p]].debounceTimers # {}
        THEN CHOOSE f \in fileWatchers[projectWatchers[p]].debounceTimers : TRUE
        ELSE <<>>

\* The close handler without its unsubscribeClient call.
Close_NoUnsubscribe(c) ==
    /\ conn[c] \in {"open", "closing", "rejected"}
    /\ conn' = [conn EXCEPT ![c] = "closed"]
    /\ last' = Op("close", c, currentProject[c], currentProject[c],
                  IF currentProject[c] \in DOMAIN projectWatchers
                  THEN projectWatchers[currentProject[c]] ELSE 0,
                  Cancelled(c), IF conn[c] = "rejected" THEN 0 ELSE SizeWith(c, currentProject[c]))
    /\ sent' = NoFrames
    /\ emitted' = <<>>
    /\ UNCHANGED <<stateRoot, disk, currentProject, projectClients, projectWatchers,
                   fileWatchers, closed, snapshotOf>>
    /\ UNCHANGED <<server, wsClient>>

\* ws 'close': the socket of client c is gone.
Close(c) ==
    /\ conn[c] \in {"open", "closing", "rejected"}
    /\ conn' = [conn EXCEPT ![c] = "closed"]
    /\ LET p == currentProject[c]
           h == IF conn[c] # "rejected" /\ p # Null
                THEN unsubscribeClient(Hub, c, p) ELSE Hub
       IN  /\ projectClients' = h.clients
           /\ projectWatchers' = h.watchers
           /\ fileWatchers' = h.fw
           /\ last' = Op("close", c, p, p,
                         IF p \in DOMAIN projectWatchers THEN projectWatchers[p] ELSE 0,
                         Cancelled(c), IF conn[c] = "rejected" THEN 0 ELSE SizeWith(c, p))
    /\ sent' = NoFrames
    /\ emitted' = <<>>
    /\ UNCHANGED <<stateRoot, disk, currentProject, closed, snapshotOf>>
    /\ UNCHANGED <<server, wsClient>>
\* shutdown that clears the maps without stopping the watchers.
shutdown_NoStop(h) ==
    [h EXCEPT !.fw = [i \in DOMAIN h.fw |->
                        IF \E p \in DOMAIN h.watchers : h.watchers[p] = i
                        THEN h.fw[i] ELSE h.fw[i]],
              !.watchers = EmptyMap,
              !.clients = EmptyMap]

\* shutdown(): stop every registered watcher, close every socket, clear both maps.
shutdown(h) ==
    [h EXCEPT !.fw = [i \in DOMAIN h.fw |->
                        IF \E p \in DOMAIN h.watchers : h.watchers[p] = i
                        THEN stop(h.fw[i]) ELSE h.fw[i]],
              !.watchers = EmptyMap,
              !.clients = EmptyMap]

Shutdown ==
    /\ ~closed
    /\ closed' = TRUE
    /\ LET h == shutdown(Hub)
       IN  /\ projectClients' = h.clients
           /\ projectWatchers' = h.watchers
           /\ fileWatchers' = h.fw
    /\ conn' = [c \in Clients |-> IF conn[c] = "open" THEN "closing" ELSE conn[c]]
    /\ sent' = NoFrames
    /\ emitted' = <<>>
    /\ last' = Op("shutdown", Null, Null, Null, 0, <<>>, 0)
    /\ UNCHANGED <<stateRoot, disk, currentProject, snapshotOf>>
    /\ UNCHANGED <<server, wsClient>>

\* chokidar finishes the initial scan of a started watcher.
ChokidarReady(w) ==
    /\ w \in DOMAIN fileWatchers
    /\ fileWatchers[w].watcher
    /\ ~fileWatchers[w].ready
    /\ fileWatchers' = [fileWatchers EXCEPT ![w].ready = TRUE]
    /\ sent' = NoFrames
    /\ emitted' = <<>>
    /\ last' = Op("ready", Null, fileWatchers[w].project, Null, w, <<>>, 0)
    /\ UNCHANGED <<stateRoot, disk, conn, currentProject, projectClients,
                   projectWatchers, closed, snapshotOf>>
    /\ UNCHANGED <<server, wsClient>>

\* The started watchers on project p.
Running(p) ==
    {w \in DOMAIN fileWatchers : fileWatchers[w].project = p /\ fileWatchers[w].watcher}

\* Consecutive raw events on the same file of the same watcher, this one included.
BurstLen(w, f) ==
    IF last.op = "raw" /\ last.w = w /\ last.f = f THEN last.n + 1 ELSE 1

\* Another process writes file f of project p; chokidar reports it ('change' or
\* 'add') to the watcher on p, which runs _handleFileChange.  A write made
\* before the initial scan is over may go unreported.
FileChanged(p, f, content) ==
    /\ stateRoot[p]
    /\ (f # StatusFile) => content = ValidJson
    /\ disk' = IF f = StatusFile THEN [disk EXCEPT ![p] = content] ELSE disk
    /\ \E detected \in BOOLEAN :
         /\ \A w \in Running(p) : fileWatchers[w].ready => detected
         /\ detected => Running(p) # {}
         /\ \A w \in Running(p) :
              detected => /\ BurstLen(w, f) <= MaxBurst
                          /\ fileWatchers[w].timeouts[f] < MaxTimeouts
         /\ fileWatchers' = [w \in DOMAIN fileWatchers |->
                               IF detected /\ w \in Running(p)
                               THEN handleFileChange(fileWatchers[w], f)
                               ELSE fileWatchers[w]]
         /\ last' = IF detected
                    THEN LET w == CHOOSE x \in Running(p) : TRUE
                         IN  Op("raw", Null, p, Null, w, f, BurstLen(w, f))
                    ELSE Op("write", Null, p, Null, 0, f, 0)
    /\ sent' = NoFrames
    /\ emitted' = <<>>
    /\ UNCHANGED <<stateRoot, conn, currentProject, projectClients,
                   projectWatchers, closed, snapshotOf>>
    /\ UNCHANGED <<server, wsClient>>

\* A debounce timeout of watcher w for file f fires.
TimerFire(w, f) ==
    /\ w \in DOMAIN fileWatchers
    /\ fileWatchers[w].timeouts[f] > 0
    /\ LET fw == fileWatchers[w]
           p == fw.project
           ev == mapToEvent(FullPath(p, f), IF stateRoot[p] THEN disk[p] ELSE Absent)
           to == IF fw.listeners /\ ev # NoEvent THEN broadcast(Hub, p) ELSE {}
       IN  /\ fileWatchers' = [fileWatchers EXCEPT ![w] = timerFired(fw, f)]
           /\ emitted' = IF ev = NoEvent THEN <<>> ELSE <<[w |-> w, event |-> ev]>>
           /\ sent' = [c \in Clients |->
                         IF c \in to THEN <<LiveFrame(ev, p, w)>> ELSE <<>>]
           /\ last' = Op("fire", Null, p, Null, w, f,
                         IF last.op = "raw" /\ last.w = w /\ last.f = f
                         THEN last.n ELSE 1)
    /\ UNCHANGED <<stateRoot, disk, conn, currentProject, projectClients,
                   projectWatchers, closed, snapshotOf>>
    /\ UNCHANGED <<server, wsClient>>

\* Another process recreates a state root that was removed.
CreateStateRoot(p) ==
    /\ ~stateRoot[p]
    /\ stateRoot' = [stateRoot EXCEPT ![p] = TRUE]
    /\ sent' = NoFrames
    /\ emitted' = <<>>
    /\ last' = Op("mkroot", Null, p, Null, 0, <<>>, 0)
    /\ UNCHANGED <<disk, conn, currentProject, projectClients, projectWatchers,
                   fileWatchers, closed, snapshotOf>>
    /\ UNCHANGED <<server, wsClient>>

\* The handler under connects, re-subscriptions, disconnects and shutdown of
\* every client on every project, with single rewrites of the status documents.
HubFiles == {StatusFile}
HubContents == {ValidJson}

Next ==
    \/ \E c \in Clients, p \in Projects : Connect(c, p)
    \/ \E c \in Clients, p \in Projects : Message(c, p)
    \/ \E c \in Clients : Close(c)
    \/ Shutdown
    \/ \E w \in 1..MaxWatchers : ChokidarReady(w)
    \/ \E p \in Projects, f \in HubFiles, content \in HubContents :
         FileChanged(p, f, content) /\ last'.n <= 1
    \/ \E w \in 1..MaxWatchers, f \in HubFiles : TimerFire(w, f)
    \/ \E p \in Projects : CreateStateRoot(p)

Spec == Init /\ [][Next]_vars

\* One client on one project, with bursts of changes of every file.
NextDebounce ==
    \/ Connect("c1", "P1")
    \/ Message("c1", "P1")
    \/ Close("c1")
    \/ \E w \in 1..MaxWatchers : ChokidarReady(w)
    \/ \E f \in Files, content \in Contents : FileChanged("P1", f, content)
    \/ \E w \in 1..MaxWatchers, f \in Files : TimerFire(w, f)
    \/ CreateStateRoot("P1")

SpecDebounce == Init /\ [][NextDebounce]_vars

\* The same, with the event loop's guarantees: a pending timeout fires, and
\* chokidar's initial scan ends.
SpecLive ==
    /\ Init
    /\ [][NextDebounce]_vars
    /\ \A w \in 1..MaxWatchers :
          /\ WF_vars(ChokidarReady(w))
          /\ \A f \in Files : WF_vars(TimerFire(w, f))
\* ------------------------------------------------ classification of a path
\* The directories under the state root a changed file may lie in (relative to
\* the state root), and the basenames of the classification.
ChangeDirs ==
    {<<>>, <<"TASK1">>, <<"TASK2">>, <<"TASK10">>, <<"TASK1.1">>, <<"notes">>,
     <<"TASK2", "research">>}
Basenames ==
    {"execution.json", "BLUEPRINT.md", "CODE_REVIEW.md", "AI_PROMPT.md", "done.txt",
     "notes.txt"}
ChangedFiles == {d \o <<b>> : d \in ChangeDirs, b \in Basenames}
\* What reading a changed status document may find.
ReadContents == {ValidJson, OwnIdJson, Garbage, Absent, Unreadable}

\* A debounce timer of a watcher on project p is about to fire for path f; a
\* read of f, when f is a status document, finds the given content.
InitClassify ==
    /\ \E p \in Projects, f \in ChangedFiles, content \in ReadContents :
         /\ basename(f) # "execution.json" => content = Absent
         /\ last = Op("changed", Null, p, Null, 0, f, 0) @@ [content |-> content]
    /\ disk = [p \in Projects |-> Absent]
    /\ stateRoot = [p \in Projects |-> TRUE]
    /\ conn = [c \in Clients |-> "closed"]
    /\ currentProject = [c \in Clients |-> Null]
    /\ projectClients = EmptyMap
    /\ projectWatchers = EmptyMap
    /\ fileWatchers = <<>>
    /\ closed = FALSE
    /\ sent = NoFrames
    /\ emitted = <<>>
    /\ snapshotOf = [c \in Clients |-> Null]
    /\ server = ServerStarted(TRUE)
    /\ wsClient = WsClientLoaded

\* The timer callback's _mapToEvent call and emit.
Classify ==
    /\ last.op = "changed"
    /\ LET ev == mapToEvent(FullPath(last.p, last.f), last.content)
       IN  emitted' = IF ev = NoEvent THEN <<>> ELSE <<[w |-> 0, event |-> ev]>>
    /\ last' = [last EXCEPT !.op = "classified"]
    /\ UNCHANGED <<stateRoot, disk, conn, currentProject, projectClients,
                   projectWatchers, fileWatchers, closed, sent, snapshotOf>>
    /\ UNCHANGED <<server, wsClient>>

SpecClassify == InitClassify /\ [][Classify]_vars
\* ------------------------------------------------ snapshot of a state root
\* The names readdirSync may list, and what an entry of the state root may be.
SnapshotNames == {"TASK1", "TASK2", "TASK10", "cache"}
SnapshotDocs == {Absent, ValidJson, Garbage, Unreadable}
Entries ==
    {Entry(n, "dir", d) : n \in SnapshotNames, d \in SnapshotDocs}
    \cup {Entry(n, k, Absent) : n \in SnapshotNames, k \in {"file", "unreadable"}}

\* The listings of a state root with at most MaxEntries entries, in any order.
Listings ==
    UNION {{l \in [1..k -> Entries] :
              \A i, j \in 1..k : l[i].name = l[j].name => i = j} : k \in 0..MaxEntries}

\* A client is about to subscribe to project p, whose state root has the
\* given listing (none when the state root is missing).
InitSnapshot ==
    /\ \E p \in Projects, listing \in Listings, root \in BOOLEAN :
         /\ ~root => listing = <<>>
         /\ stateRoot = [q \in Projects |-> q # p \/ root]
         /\ last = Op("listed", Null, p, Null, 0, <<>>, 0) @@ [listing |-> listing]
    /\ disk = [p \in Projects |-> Absent]
    /\ conn = [c \in Clients |-> "closed"]
    /\ currentProject = [c \in Clients |-> Null]
    /\ projectClients = EmptyMap
    /\ projectWatchers = EmptyMap
    /\ fileWatchers = <<>>
    /\ closed = FALSE
    /\ sent = NoFrames
    /\ emitted = <<>>
    /\ snapshotOf = [c \in Clients |-> Null]
    /\ server = ServerStarted(TRUE)
    /\ wsClient = WsClientLoaded

\* The getInitialState call of subscribeClient.
Snapshot ==
    /\ last.op = "listed"
    /\ last' = [last EXCEPT !.op = "snapshot"]
                 @@ [state |-> getInitialState(last.p, stateRoot[last.p], last.listing)]
    /\ UNCHANGED <<stateRoot, disk, conn, currentProject, projectClients,
                   projectWatchers, fileWatchers, closed, sent, emitted, snapshotOf>>
    /\ UNCHANGED <<server, wsClient>>

SpecSnapshot == InitSnapshot /\ [][Snapshot]_vars
\* ------------------------------------------------- validation of a path
\* Candidate paths of a request, as strings.
Candidates ==
    {<<sep, "srv", sep, "app">>,
     <<sep, "srv", sep, "app", sep>>,
     <<"app">>,
     <<"%2F", "srv", "%2F", "app">>,
     <<sep, "srv", sep, "app", sep, "sub">>,
     <<sep, "srv", sep, "app", "-other">>,
     <<sep, "srv", sep, "app", sep, "..", sep, "secret">>,
     <<sep, "srv", sep, "app", sep, "%2E%2E", sep, "secret">>,
     <<sep, "srv", sep, "v1..2">>,
     <<sep, "srv", sep, "app", "%">>,
     <<sep, "etc">>,
     <<sep>>}

\* Lists of allowed paths the server may be started with.
AllowLists ==
    {{}, {<<sep, "srv", sep, "app">>}, {<<sep, "srv", sep, "app", sep>>, <<sep, "etc">>},
     {<<sep>>}}

\* A request names the candidate path; the server has the allow-list, and the
\* file system holds something of the given kind at the resolved path.
InitValidate ==
    /\ \E projectPath \in Candidates, allowedPaths \in AllowLists, kind \in Kinds :
         last = Op("request", Null, Null, Null, 0, <<>>, 0)
                  @@ [projectPath |-> projectPath, allowedPaths |-> allowedPaths,
                      kind |-> kind]
    /\ stateRoot = [p \in Projects |-> TRUE]
    /\ disk = [p \in Projects |-> Absent]
    /\ conn = [c \in Clients |-> "closed"]
    /\ currentProject = [c \in Clients |-> Null]
    /\ projectClients = EmptyMap
    /\ projectWatchers = EmptyMap
    /\ fileWatchers = <<>>
    /\ closed = FALSE
    /\ sent = NoFrames
    /\ emitted = <<>>
    /\ snapshotOf = [c \in Clients |-> Null]
    /\ server = ServerStarted(TRUE)
    /\ wsClient = WsClientLoaded

\* The validateProjectPath call of a request handler.
Validate ==
    /\ last.op = "request"
    /\ last' = [last EXCEPT !.op = "validated"]
                 @@ [validation |->
                       validateProjectPath(last.projectPath, last.allowedPaths, last.kind)]
    /\ UNCHANGED <<stateRoot, disk, conn, currentProject, projectClients,
                   projectWatchers, fileWatchers, closed, sent, emitted, snapshotOf>>
    /\ UNCHANGED <<server, wsClient>>

SpecValidate == InitValidate /\ [][Validate]_vars
\* ------------------------------------------- requests as a client sends them
\* The directories a request may name, and the resolved path of each: the two
\* projects, a subdirectory of P1, a sibling of P1 whose name starts with P1's,
\* a directory outside the project paths, and the working directory.
Dirs == Projects \cup {"P1/sub", "P1-other", "etc", "cwd"}

DirPath(d) ==
    CASE d \in Projects -> PathString(ProjectNames(d))
      [] d = "P1/sub" -> PathString(ProjectNames("P1")) \o <<sep, "sub">>
      [] d = "P1-other" -> PathString(ProjectNames("P1")) \o <<"-other">>
      [] d = "etc" -> <<sep, "etc">>
      [] d = "cwd" -> PathString(Cwd)

\* The directory at a resolved path, "nowhere" when the path names none.
Directory(resolvedPath) ==
    IF \E d \in Dirs : DirPath(d) = resolvedPath
    THEN CHOOSE d \in Dirs : DirPath(d) = resolvedPath
    ELSE "nowhere"

\* What the file system holds at a directory: every directory but the working
\* directory has a state root (a project has one while stateRoot says so).
KindAt(d) ==
    CASE d \in Projects -> IF stateRoot[d] THEN "project" ELSE "bare"
      [] d = "cwd" -> "bare"
      [] d = "nowhere" -> "missing"
      [] OTHER -> "project"

\* What the file system holds at the path validateProjectPath resolves a
\* request to.
KindOfRequest(projectPath) ==
    LET decodedPath == decodeURIComponent(projectPath)
    IN  IF decodedPath.ok THEN KindAt(Directory(resolve(decodedPath.value)))
        ELSE "missing"

\* Values of query.project as url.parse hands them to handleConnection (<<>>:
\* the parameter is absent or empty), also the values of data.projectPath.
Queries ==
    {DirPath(d) : d \in Dirs} \cup
    {<<>>,
     DirPath("P1") \o <<sep>>,
     <<"%2F", "work", "%2F", "alpha">>,
     <<"%252F", "work", "%252F", "alpha">>,
     DirPath("P1") \o <<sep, "..", sep, "..", sep, "etc">>,
     DirPath("P1") \o <<"%">>}
\* An inbound message: json, its text parses; object, the parsed value is not
\* null; event and data, its fields (Null: no event field; data FALSE: no data
\* field); projectPath, the field of data (<<>>: absent or empty).
Inbound(json, object, event, data, projectPath) ==
    [json |-> json, object |-> object, event |-> event, data |-> data,
     projectPath |-> projectPath]

SubscribeProject == "subscribe:project"

Messages ==
    {Inbound(FALSE, FALSE, Null, FALSE, <<>>),
     Inbound(TRUE, FALSE, Null, FALSE, <<>>),
     Inbound(TRUE, TRUE, Null, FALSE, <<>>),
     Inbound(TRUE, TRUE, Null, TRUE, DirPath("P2")),
     Inbound(TRUE, TRUE, "ping", FALSE, <<>>),
     Inbound(TRUE, TRUE, "unsubscribe", TRUE, DirPath("P1")),
     Inbound(TRUE, TRUE, SubscribeProject, FALSE, <<>>)}
    \cup {Inbound(TRUE, TRUE, SubscribeProject, TRUE, q) : q \in Queries}

\* An exception has left an event handler of the server.
Crashed == \E c \in Clients : conn[c] = "crashed"

\* subscribeClient(ws, validation.resolvedPath) for the directory d at the
\* resolved path, with its snapshot frame; input is the request, kept in last.
SubscribeDir(c, d, h, delivered, opname, input) ==
    LET h2 == subscribeClient(h, c, d, TRUE)
        frame == StateFrame(d, TRUE, IF d \in Projects THEN disk[d] ELSE Absent)
    IN  /\ StartsWatcher(h, c, d) => Len(fileWatchers) < MaxWatchers
        /\ projectClients' = h2.clients
        /\ projectWatchers' = h2.watchers
        /\ fileWatchers' = h2.fw
        /\ currentProject' = h2.current
        /\ sent' = [NoFrames EXCEPT ![c] = IF delivered THEN <<frame>> ELSE <<>>]
        /\ snapshotOf' = IF delivered THEN [snapshotOf EXCEPT ![c] = d]
                         ELSE snapshotOf
        /\ emitted' = <<>>
        /\ last' = Op(opname, c, d, h.current[c], h2.watchers[d], <<>>,
                      SizeWith(c, h.current[c])) @@ input

\* wss 'connection' for any value of the project parameter: handleConnection
\* decodes it, validates the decoded value and subscribes the socket to the
\* resolved path.  decodeURIComponent is called outside any try: when it throws,
\* the exception leaves handleConnection with the socket open and no handler
\* attached to it.
Upgrade(c, query) ==
    /\ conn[c] = "closed"
    /\ ~closed
    /\ ~Crashed
    /\ LET decoded == IF query # <<>> THEN decodeURIComponent(query)
                      ELSE [ok |-> TRUE, value |-> <<>>]
           projectPath == decoded.value
           validation == validateProjectPath(projectPath, projectPaths,
                                             KindOfRequest(projectPath))
           input == [query |-> query]
       IN  IF ~decoded.ok
           THEN /\ conn' = [conn EXCEPT ![c] = "crashed"]
                /\ currentProject' = [currentProject EXCEPT ![c] = Null]
                /\ snapshotOf' = [snapshotOf EXCEPT ![c] = Null]
                /\ sent' = NoFrames
                /\ emitted' = <<>>
                /\ last' = Op("throw", c, Null, Null, 0, <<>>, 0) @@ input
                /\ UNCHANGED <<projectClients, projectWatchers, fileWatchers>>
           ELSE IF ~validation.valid
           THEN /\ conn' = [conn EXCEPT ![c] = "rejected"]
                /\ currentProject' = [currentProject EXCEPT ![c] = Null]
                /\ snapshotOf' = [snapshotOf EXCEPT ![c] = Null]
                /\ sent' = [NoFrames EXCEPT ![c] = <<ErrorFrame>>]
                /\ emitted' = <<>>
                /\ last' = Op("reject", c, Null, Null, 0, <<>>, 0) @@ input
                /\ UNCHANGED <<projectClients, projectWatchers, fileWatchers>>
           ELSE /\ conn' = [conn EXCEPT ![c] = "open"]
                /\ SubscribeDir(c, Directory(validation.resolvedPath),
                                [Hub EXCEPT !.current[c] = Null], TRUE, "connect", input)
    /\ UNCHANGED <<stateRoot, disk, closed>>
    /\ UNCHANGED <<server, wsClient>>
\* The message handler that answers a message it does not handle with the error frame.
OnMessage_ErrorReply(c, message) ==
    /\ conn[c] \in {"open", "closing"}
    /\ ~Crashed
    /\ LET newProjectPath == message.projectPath
           newValidation == validateProjectPath(newProjectPath, projectPaths,
                                                KindOfRequest(newProjectPath))
           input == [message |-> message]
           caught == \/ ~message.json
                     \/ ~message.object
                     \/ message.event = SubscribeProject /\ ~message.data
       IN  IF caught \/ message.event # SubscribeProject
           THEN /\ sent' = [NoFrames EXCEPT ![c] = <<ErrorFrame>>]
                /\ emitted' = <<>>
                /\ last' = Op(IF caught THEN "caught" ELSE "ignore", c, Null,
                              currentProject[c], 0, <<>>, 0) @@ input
                /\ UNCHANGED <<currentProject, projectClients, projectWatchers,
                               fileWatchers, snapshotOf>>
           ELSE IF newValidation.valid
           THEN SubscribeDir(c, Directory(newValidation.resolvedPath), Hub,
                             conn[c] = "open", "resubscribe", input)
           ELSE /\ sent' = [NoFrames EXCEPT ![c] = IF conn[c] = "open"
                                                   THEN <<ErrorFrame>> ELSE <<>>]
                /\ emitted' = <<>>
                /\ last' = Op("refuse", c, Null, currentProject[c], 0, <<>>, 0) @@ input
                /\ UNCHANGED <<currentProject, projectClients, projectWatchers,
                               fileWatchers, snapshotOf>>
    /\ UNCHANGED <<stateRoot, disk, conn, closed>>
    /\ UNCHANGED <<server, wsClient>>

\* The message handler that calls validateProjectPath without the allow-list.
OnMessage_NoAllowList(c, message) ==
    /\ conn[c] \in {"open", "closing"}
    /\ ~Crashed
    /\ LET newProjectPath == message.projectPath
           newValidation == validateProjectPath(newProjectPath, {},
                                                KindOfRequest(newProjectPath))
           input == [message |-> message]
           caught == \/ ~message.json
                     \/ ~message.object
                     \/ message.event = SubscribeProject /\ ~message.data
       IN  IF caught \/ message.event # SubscribeProject
           THEN /\ sent' = NoFrames
                /\ emitted' = <<>>
                /\ last' = Op(IF caught THEN "caught" ELSE "ignore", c, Null,
                              currentProject[c], 0, <<>>, 0) @@ input
                /\ UNCHANGED <<currentProject, projectClients, projectWatchers,
                               fileWatchers, snapshotOf>>
           ELSE IF newValidation.valid
           THEN SubscribeDir(c, Directory(newValidation.resolvedPath), Hub,
                             conn[c] = "open", "resubscribe", input)
           ELSE /\ sent' = [NoFrames EXCEPT ![c] = IF conn[c] = "open"
                                                   THEN <<ErrorFrame>> ELSE <<>>]
                /\ emitted' = <<>>
                /\ last' = Op("refuse", c, Null, currentProject[c], 0, <<>>, 0) @@ input
                /\ UNCHANGED <<currentProject, projectClients, projectWatchers,
                               fileWatchers, snapshotOf>>
    /\ UNCHANGED <<stateRoot, disk, conn, closed>>
    /\ UNCHANGED <<server, wsClient>>

\* ws 'message' for any inbound message.  The handler's body is inside a try:
\* JSON.parse of a text that is not JSON, the destructuring of null and the read
\* of data.projectPath without data throw, and the catch only logs.
OnMessage(c, message) ==
    /\ conn[c] \in {"open", "closing"}
    /\ ~Crashed
    /\ LET newProjectPath == message.projectPath
           newValidation == validateProjectPath(newProjectPath, projectPaths,
                                                KindOfRequest(newProjectPath))
           input == [message |-> message]
           caught == \/ ~message.json
                     \/ ~message.object
                     \/ message.event = SubscribeProject /\ ~message.data
       IN  IF caught \/ message.event # SubscribeProject
           THEN /\ sent' = NoFrames
                /\ emitted' = <<>>
                /\ last' = Op(IF caught THEN "caught" ELSE "ignore", c, Null,
                              currentProject[c], 0, <<>>, 0) @@ input
                /\ UNCHANGED <<currentProject, projectClients, projectWatchers,
                               fileWatchers, snapshotOf>>
           ELSE IF newValidation.valid
           THEN SubscribeDir(c, Directory(newValidation.resolvedPath), Hub,
                             conn[c] = "open", "resubscribe", input)
           ELSE /\ sent' = [NoFrames EXCEPT ![c] = IF conn[c] = "open"
                                                   THEN <<ErrorFrame>> ELSE <<>>]
                /\ emitted' = <<>>
                /\ last' = Op("refuse", c, Null, currentProject[c], 0, <<>>, 0) @@ input
                /\ UNCHANGED <<currentProject, projectClients, projectWatchers,
                               fileWatchers, snapshotOf>>
    /\ UNCHANGED <<stateRoot, disk, conn, closed>>
    /\ UNCHANGED <<server, wsClient>>

\* The handler under any project parameter and any inbound message, with
\* disconnects and shutdown.
NextRequests ==
    \/ \E c \in Clients, query \in Queries : Upgrade(c, query)
    \/ \E c \in Clients, message \in Messages : OnMessage(c, message)
    \/ \E c \in Clients : ~Crashed /\ Close(c)
    \/ ~Crashed /\ Shutdown

SpecRequests == Init /\ [][NextRequests]_vars
\* ------------------------------------------------------ signals and exit
\* The signal handler that closes the HTTP server before it shuts the
\* WebSocket handler down.
SignalCalls_CloseFirst(wsHandler) ==
    <<"httpServer.close">> \o (IF wsHandler THEN <<"wsHandler.shutdown">> ELSE <<>>)

\* The calls of the signal handler, in the order it makes them.
SignalCalls(wsHandler) ==
    (IF wsHandler THEN <<"wsHandler.shutdown">> ELSE <<>>) \o <<"httpServer.close">>

\* SIGINT or SIGTERM: the handler shutdown of run().  It calls
\* server.wsHandler.shutdown() when there is a handler, then
\* httpServer.close(callback), which releases the listening socket at once.
Signal(sig) ==
    /\ ~server.exited
    /\ server.closing < MaxSignals
    /\ IF server.wsHandler
       THEN LET h == shutdown(Hub)
            IN  /\ projectClients' = h.clients
                /\ projectWatchers' = h.watchers
                /\ fileWatchers' = h.fw
                /\ closed' = TRUE
                /\ conn' = [c \in Clients |->
                              IF conn[c] = "open" THEN "closing" ELSE conn[c]]
       ELSE UNCHANGED <<projectClients, projectWatchers, fileWatchers, closed, conn>>
    /\ server' = [server EXCEPT !.calls = @ \o SignalCalls(server.wsHandler),
                                !.listening = FALSE,
                                !.closing = @ + 1]
    /\ sent' = NoFrames
    /\ emitted' = <<>>
    /\ last' = Op(sig, Null, Null, Null, 0, <<>>, 0)
    /\ UNCHANGED <<stateRoot, disk, currentProject, snapshotOf, wsClient>>

\* The HTTP server emits 'close' once it has stopped listening and every
\* connection has ended: the callback of httpServer.close() runs and calls
\* process.exit(0).
HttpCloseCallback ==
    /\ ~server.exited
    /\ server.closing > 0
    /\ \A c \in Clients : conn[c] = "closed"
    /\ server' = [server EXCEPT !.calls = @ \o <<"close callback", "process.exit">>,
                                !.closing = 0,
                                !.exited = TRUE]
    /\ sent' = NoFrames
    /\ emitted' = <<>>
    /\ last' = Op("exit", Null, Null, Null, 0, <<>>, 0)
    /\ UNCHANGED <<stateRoot, disk, conn, currentProject, projectClients,
                   projectWatchers, fileWatchers, closed, snapshotOf, wsClient>>

\* The serve process with or without a WebSocket handler (createServer always
\* returns one; run() also accepts a server object without it).
InitSignal ==
    /\ \E wsHandler \in BOOLEAN : server = ServerStarted(wsHandler)
    /\ wsClient = WsClientLoaded
    /\ stateRoot = [p \in Projects |-> TRUE]
    /\ disk = [p \in Projects |-> Absent]
    /\ conn = [c \in Clients |-> "closed"]
    /\ currentProject = [c \in Clients |-> Null]
    /\ projectClients = EmptyMap
    /\ projectWatchers = EmptyMap
    /\ fileWatchers = <<>>
    /\ closed = FALSE
    /\ sent = NoFrames
    /\ emitted = <<>>
    /\ snapshotOf = [c \in Clients |-> Null]
    /\ last = Op("init", Null, Null, Null, 0, <<>>, 0)

\* Connections, re-subscriptions and disconnects while the process runs, the
\* signals, and the exit.
NextSignal ==
    \/ \E c \in Clients, p \in Projects :
         server.listening /\ server.wsHandler /\ Connect(c, p)
    \/ \E c \in Clients, p \in Projects : ~server.exited /\ Message(c, p)
    \/ \E c \in Clients : ~server.exited /\ Close(c)
    \/ \E sig \in {"SIGINT", "SIGTERM"} : Signal(sig)
    \/ HttpCloseCallback

SpecSignal == InitSignal /\ [][NextSignal]_vars
\* ------------------------------------------------------- browser client
\* Delays are in microseconds, so that 2000 * 1.5^n ms is a whole number for
\* every n below the cap.
UsPerMs == 1000
INITIAL_RECONNECT_DELAY == 2000
MAX_RECONNECT_DELAY == 30000
\* BACKOFF_MULTIPLIER is 1.5: three halves.
BACKOFF_MULTIPLIER == <<3, 2>>

\* getReconnectDelay with the multiplier 2.
getReconnectDelay_Doubling(reconnectAttempts) ==
    IF INITIAL_RECONNECT_DELAY * 2 ^ reconnectAttempts > MAX_RECONNECT_DELAY
    THEN MAX_RECONNECT_DELAY * UsPerMs
    ELSE INITIAL_RECONNECT_DELAY * UsPerMs * 2 ^ reconnectAttempts

\* getReconnectDelay: min(INITIAL * 1.5^attempts, MAX).
getReconnectDelay(reconnectAttempts) ==
    IF INITIAL_RECONNECT_DELAY * BACKOFF_MULTIPLIER[1] ^ reconnectAttempts
         > MAX_RECONNECT_DELAY * BACKOFF_MULTIPLIER[2] ^ reconnectAttempts
    THEN MAX_RECONNECT_DELAY * UsPerMs
    ELSE (INITIAL_RECONNECT_DELAY * UsPerMs * BACKOFF_MULTIPLIER[1] ^ reconnectAttempts)
             \div (BACKOFF_MULTIPLIER[2] ^ reconnectAttempts)

\* A WebSocket the client has constructed: onclose, the client's close handler
\* is attached; project, the project parameter of its URL.
NewSocket(projectPath) ==
    [readyState |-> "CONNECTING", onclose |-> TRUE, project |-> projectPath]

\* WebSocket.close(): a socket that is connecting or open starts closing (a
\* connecting one never opens).
close(socket) ==
    IF socket.readyState \in {"CONNECTING", "OPEN"}
    THEN [socket EXCEPT !.readyState = "CLOSING"] ELSE socket

\* clearTimeout(reconnectTimer); reconnectTimer = null, when a timer is set.
clearReconnect(cl) ==
    IF cl.reconnectTimer # 0
    THEN [cl EXCEPT !.reconnectTimer = 0, !.timeouts = @ - 1]
    ELSE cl

\* scheduleReconnect: reconnectTimer holds the delay of the timeout it set, and
\* timeouts counts the timeouts pending in the event loop.
scheduleReconnect(cl) ==
    IF cl.reconnectTimer # 0 THEN cl
    ELSE [cl EXCEPT !.reconnectTimer = getReconnectDelay(cl.reconnectAttempts),
                    !.reconnectAttempts = @ + 1,
                    !.timeouts = @ + 1]

\* connect that does not clear the pending reconnect timeout.
connect_KeepTimer(cl, projectPath, throws) ==
    LET cl1 == [cl EXCEPT !.currentProjectPath = projectPath]
        cl2 == IF cl1.ws # 0
               THEN [cl1 EXCEPT !.sockets[cl1.ws] = close([@ EXCEPT !.onclose = FALSE]),
                                !.ws = 0]
               ELSE cl1
    IN  IF throws THEN scheduleReconnect(cl2)
        ELSE [cl2 EXCEPT !.sockets = Append(@, NewSocket(projectPath)),
                         !.ws = Len(cl2.sockets) + 1]

\* connect(projectPath); throws: new WebSocket(wsUrl) throws.
connect(cl, projectPath, throws) ==
    LET cl1 == [cl EXCEPT !.currentProjectPath = projectPath]
        cl2 == IF cl1.ws # 0
               THEN [cl1 EXCEPT !.sockets[cl1.ws] = close([@ EXCEPT !.onclose = FALSE]),
                                !.ws = 0]
               ELSE cl1
        cl3 == clearReconnect(cl2)
    IN  IF throws THEN scheduleReconnect(cl3)
        ELSE [cl3 EXCEPT !.sockets = Append(@, NewSocket(projectPath)),
                         !.ws = Len(cl3.sockets) + 1]

\* disconnect() that leaves the pending reconnect timer alone.
disconnect_KeepTimer(cl) ==
    LET cl1 == [cl EXCEPT !.currentProjectPath = Null, !.reconnectAttempts = 0]
    IN  IF cl1.ws # 0
        THEN [cl1 EXCEPT !.sockets[cl1.ws] = close([@ EXCEPT !.onclose = FALSE]),
                         !.ws = 0]
        ELSE cl1

disconnect(cl) ==
    LET cl1 == clearReconnect([cl EXCEPT !.currentProjectPath = Null,
                                         !.reconnectAttempts = 0])
    IN  IF cl1.ws # 0
        THEN [cl1 EXCEPT !.sockets[cl1.ws] = close([@ EXCEPT !.onclose = FALSE]),
                         !.ws = 0]
        ELSE cl1

\* The messages subscribe(projectPath) sends: one on the current socket when
\* it is open, none otherwise.
subscribe(cl, projectPath) ==
    IF cl.ws = 0 \/ cl.sockets[cl.ws].readyState # "OPEN" THEN <<>>
    ELSE <<[socket |-> cl.ws, event |-> SubscribeProject,
            data |-> [projectPath |-> projectPath]]>>

\* ws.onopen that does not subscribe.
onopen_NoSubscribe(cl) == <<>>

\* The messages ws.onopen sends.
onopen(cl) ==
    IF cl.currentProjectPath # Null THEN subscribe(cl, cl.currentProjectPath)
    ELSE <<>>

\* ws.onclose, for a close event with the given code.
onclose(cl, code) ==
    LET cl1 == [cl EXCEPT !.ws = 0]
    IN  IF code # 1000 /\ cl1.currentProjectPath # Null THEN scheduleReconnect(cl1)
        ELSE cl1
\* The variables of the server side.
hubVars == <<stateRoot, disk, conn, currentProject, projectClients, projectWatchers,
             fileWatchers, closed, sent, emitted, snapshotOf, server>>

\* Close codes of a close event: normal closure and abnormal closure.
CloseCodes == {1000, 1006}

\* The record of a step of the client.  socket and code: the socket and close
\* code of the event; ws and target: ws and currentProjectPath before the step;
\* disconnected: disconnect() was called and connect() has not been called by
\* the page since; delay: the
\* delay of the reconnect the step scheduled (0: none); send: the messages it
\* sent; sinceOpen: the reconnects scheduled since the last successful open,
\* before this step; sinceReset: the same since the last successful open or
\* disconnect(); connectArg: the project most recently passed to connect().
ClientStep(op, socket, code, before, after, send) ==
    LET scheduled == /\ after.reconnectTimer # 0
                     /\ before.reconnectTimer = 0 \/ op \in {"connect", "timer"}
        n == IF scheduled THEN 1 ELSE 0
    IN  Op(op, Null, Null, Null, 0, <<>>, 0) @@
        [socket |-> socket, code |-> code, ws |-> before.ws,
         target |-> before.currentProjectPath,
         disconnected |-> IF op = "disconnect" THEN TRUE
                          ELSE IF op = "connect" THEN FALSE ELSE last.disconnected,
         delay |-> IF scheduled THEN after.reconnectTimer ELSE 0,
         send |-> send,
         sinceOpen |-> IF last.op = "open" THEN 0 ELSE last.sinceOpen + last.scheduled,
         sinceReset |-> IF last.op \in {"open", "disconnect"} THEN 0
                        ELSE last.sinceReset + last.scheduled,
         scheduled |-> n,
         connectArg |-> IF op \in {"connect", "timer"} /\ after.currentProjectPath # Null
                        THEN after.currentProjectPath ELSE last.connectArg]

InitClient ==
    /\ wsClient = WsClientLoaded
    /\ server = ServerStarted(TRUE)
    /\ stateRoot = [p \in Projects |-> TRUE]
    /\ disk = [p \in Projects |-> Absent]
    /\ conn = [c \in Clients |-> "closed"]
    /\ currentProject = [c \in Clients |-> Null]
    /\ projectClients = EmptyMap
    /\ projectWatchers = EmptyMap
    /\ fileWatchers = <<>>
    /\ closed = FALSE
    /\ sent = NoFrames
    /\ emitted = <<>>
    /\ snapshotOf = [c \in Clients |-> Null]
    /\ last = Op("init", Null, Null, Null, 0, <<>>, 0) @@
              [socket |-> 0, code |-> 0, ws |-> 0, target |-> Null,
               disconnected |-> FALSE, delay |-> 0, send |-> <<>>,
               sinceOpen |-> 0, sinceReset |-> 0, scheduled |-> 0, connectArg |-> Null]

\* The page calls WsClient.connect(projectPath).
UserConnect(projectPath, throws) ==
    /\ LET after == connect(wsClient, projectPath, throws)
       IN  /\ Len(after.sockets) <= MaxSockets
           /\ after.reconnectAttempts <= MaxAttempts
           /\ wsClient' = after
           /\ last' = ClientStep("connect", after.ws, 0, wsClient, after, <<>>)
           /\ last'.sinceOpen + last'.scheduled <= MaxAttempts
    /\ UNCHANGED hubVars

\* The page calls WsClient.disconnect().
UserDisconnect ==
    /\ LET after == disconnect(wsClient)
       IN  /\ wsClient' = after
           /\ last' = ClientStep("disconnect", wsClient.ws, 0, wsClient, after, <<>>)
           /\ last'.sinceOpen + last'.scheduled <= MaxAttempts
    /\ UNCHANGED hubVars

\* The reconnect timeout fires.
ReconnectTimer(throws) ==
    /\ wsClient.timeouts > 0
    /\ LET cl1 == [wsClient EXCEPT !.reconnectTimer = 0, !.timeouts = @ - 1]
           after == IF cl1.currentProjectPath # Null
                    THEN connect(cl1, cl1.currentProjectPath, throws)
                    ELSE cl1
       IN  /\ cl1.currentProjectPath = Null => ~throws
           /\ Len(after.sockets) <= MaxSockets
           /\ after.reconnectAttempts <= MaxAttempts
           /\ wsClient' = after
           /\ last' = ClientStep("timer", after.ws, 0, wsClient, after, <<>>)
           /\ last'.sinceOpen + last'.scheduled <= MaxAttempts
    /\ UNCHANGED hubVars

\* The connection of socket i is established: its open event runs ws.onopen.
SocketOpen(i) ==
    /\ i \in DOMAIN wsClient.sockets
    /\ wsClient.sockets[i].readyState = "CONNECTING"
    /\ LET cl1 == [wsClient EXCEPT !.sockets[i].readyState = "OPEN"]
           after == [cl1 EXCEPT !.reconnectAttempts = 0]
       IN  /\ wsClient' = after
           /\ last' = ClientStep("open", i, 0, wsClient, after, onopen(after))
           /\ last'.sinceOpen + last'.scheduled <= MaxAttempts
    /\ UNCHANGED hubVars

\* The connection of socket i fails or ends: its close event, with the given
\* code, runs ws.onclose when the handler is still attached.
SocketClose(i, code) ==
    /\ i \in DOMAIN wsClient.sockets
    /\ wsClient.sockets[i].readyState # "CLOSED"
    /\ LET cl1 == [wsClient EXCEPT !.sockets[i].readyState = "CLOSED"]
           after == IF cl1.sockets[i].onclose THEN onclose(cl1, code) ELSE cl1
       IN  /\ after.reconnectAttempts <= MaxAttempts
           /\ wsClient' = after
           /\ last' = ClientStep("closed", i, code, wsClient, after, <<>>)
           /\ last'.sinceOpen + last'.scheduled <= MaxAttempts
    /\ UNCHANGED hubVars

NextClient ==
    \/ \E projectPath \in Projects, throws \in BOOLEAN : UserConnect(projectPath, throws)
    \/ UserDisconnect
    \/ \E throws \in BOOLEAN : ReconnectTimer(throws)
    \/ \E i \in 1..MaxSockets : SocketOpen(i)
    \/ \E i \in 1..MaxSockets, code \in CloseCodes : SocketClose(i, code)

SpecClient == InitClient /\ [][NextClient]_vars
\* ------------------------------------------------------------ REST endpoints
\* Values of req.params.projectPath as Express hands them to a route: the path
\* segment of the URL, decoded once (an empty segment matches no route).
Params == Queries \ {<<>>}

\* decodeProjectPath: decodeURIComponent, and the input itself when it throws.
decodeProjectPath(encodedPath) ==
    LET decoded == decodeURIComponent(encodedPath)
    IN  IF decoded.ok THEN decoded.value ELSE encodedPath

\* The directory the file system resolves a path string to.
DirectoryOf(projectPath) == Directory(resolve(projectPath))

\* The response of a route and the directories under which it read or wrote
\* files on the way: status and success are the HTTP status and the success
\* field of the JSON body.
Respond(op, param, status, success, reads, writes) ==
    Op(op, Null, Null, Null, 0, <<>>, 0)
      @@ [param |-> param, status |-> status, success |-> success,
          reads |-> reads, writes |-> writes]

\* The variables no route touches.
restVars == <<disk, conn, currentProject, projectClients, projectWatchers,
              fileWatchers, closed, sent, emitted, snapshotOf, server, wsClient>>

\* GET /api/projects/:projectPath/state: the path is decoded, validated against
\* the project paths and, when valid, the tasks under its state root are read.
GetState(param) ==
    /\ LET decodedPath == decodeProjectPath(param)
           validation == validateProjectPath(decodedPath, projectPaths,
                                             KindOfRequest(decodedPath))
       IN  last' = IF ~validation.valid
                   THEN Respond("GET state", param, 400, FALSE, {}, {})
                   ELSE Respond("GET state", param, 200, TRUE,
                                {Directory(validation.resolvedPath)}, {})
    /\ UNCHANGED stateRoot
    /\ UNCHANGED restVars

\* GET /api/projects/:projectPath/tasks: the parameter is joined with the state
\* root's name as it is; without that directory the answer is the empty list,
\* with it the task directories and their documents are read.
GetTasks(param) ==
    /\ LET d == DirectoryOf(param)
       IN  last' = IF KindAt(d) # "project"
                   THEN Respond("GET tasks", param, 200, TRUE, {}, {})
                   ELSE Respond("GET tasks", param, 200, TRUE, {d}, {})
    /\ UNCHANGED stateRoot
    /\ UNCHANGED restVars

\* PUT /api/projects/:projectPath/prompt with a body whose content is a
\* non-empty string or not: the state root of the decoded path is created when
\* missing and AI_PROMPT.md is written in it; decodeURIComponent throws inside
\* the handler's try.
PutPrompt(param, content) ==
    /\ LET decoded == decodeURIComponent(param)
           d == DirectoryOf(decoded.value)
       IN  IF ~content
           THEN /\ last' = Respond("PUT prompt", param, 400, FALSE, {}, {})
                /\ UNCHANGED stateRoot
           ELSE IF ~decoded.ok
           THEN /\ last' = Respond("PUT prompt", param, 500, FALSE, {}, {})
                /\ UNCHANGED stateRoot
           ELSE /\ last' = Respond("PUT prompt", param, 200, TRUE, {}, {d})
                /\ stateRoot' = IF d \in Projects
                                THEN [stateRoot EXCEPT ![d] = TRUE]
                                ELSE stateRoot
    /\ UNCHANGED restVars

\* GET /api/projects/:projectPath/logs: log.txt under the decoded path is read
\* when it exists (logExists), else the answer is the empty log.
GetLogs(param, logExists) ==
    /\ LET d == DirectoryOf(decodeProjectPath(param))
       IN  last' = IF d = "nowhere" \/ ~logExists
                   THEN Respond("GET logs", param, 200, TRUE, {}, {})
                   ELSE Respond("GET logs", param, 200, TRUE, {d}, {})
    /\ UNCHANGED stateRoot
    /\ UNCHANGED restVars

\* The server with no socket connected; the project directories exist, with or
\* without their state root.
InitRest ==
    /\ stateRoot \in [Projects -> BOOLEAN]
    /\ disk = [p \in Projects |-> Absent]
    /\ conn = [c \in Clients |-> "closed"]
    /\ currentProject = [c \in Clients |-> Null]
    /\ projectClients = EmptyMap
    /\ projectWatchers = EmptyMap
    /\ fileWatchers = <<>>
    /\ closed = FALSE
    /\ sent = NoFrames
    /\ emitted = <<>>
    /\ snapshotOf = [c \in Clients |-> Null]
    /\ last = Op("init", Null, Null, Null, 0, <<>>, 0)
    /\ server = ServerStarted(TRUE)
    /\ wsClient = WsClientLoaded

NextRest ==
    \/ \E param \in Params : GetState(param)
    \/ \E param \in Params : GetTasks(param)
    \/ \E param \in Params, content \in BOOLEAN : PutPrompt(param, content)
    \/ \E param \in Params, logExists \in BOOLEAN : GetLogs(param, logExists)

SpecRest == InitRest /\ [][NextRest]_vars
\* ---------------------------------------------------------------- broadcast
\* The projects some client of a subscription table is subscribed to, in the
\* order their watchers were constructed.
Watched(cur) ==
    LET subscribed == {p \in Projects : \E c \in Clients : cur[c] = p}
    IN  IF subscribed = Projects THEN <<"P1", "P2">>
        ELSE IF subscribed = {} THEN <<>>
        ELSE <<CHOOSE p \in subscribed : TRUE>>

\* The events a broadcast carries here: two classifications of a changed file.
BroadcastEvents ==
    {mapToEvent(FullPath("P1", f), ValidJson) : f \in {StatusFile, PromptFile}}

\* The handler with every client either subscribed to a project (open, its
\* snapshot received) or not connected, and a ready watcher for each project
\* that has subscribers.
InitBroadcast ==
    /\ \E cur \in [Clients -> Projects \cup {Null}] :
         /\ currentProject = cur
         /\ snapshotOf = cur
         /\ conn = [c \in Clients |-> IF cur[c] = Null THEN "closed" ELSE "open"]
         /\ projectClients =
              [p \in {Watched(cur)[i] : i \in 1..Len(Watched(cur))} |->
                  {c \in Clients : cur[c] = p}]
         /\ projectWatchers =
              [p \in {Watched(cur)[i] : i \in 1..Len(Watched(cur))} |->
                  CHOOSE i \in 1..Len(Watched(cur)) : Watched(cur)[i] = p]
         /\ fileWatchers =
              [i \in 1..Len(Watched(cur)) |->
                  [start(NewWatcher(Watched(cur)[i])) EXCEPT !.listeners = TRUE,
                                                             !.ready = TRUE]]
    /\ stateRoot = [p \in Projects |-> TRUE]
    /\ disk = [p \in Projects |-> Absent]
    /\ closed = FALSE
    /\ sent = NoFrames
    /\ emitted = <<>>
    /\ last = Op("init", Null, Null, Null, 0, <<>>, 0)
    /\ server = ServerStarted(TRUE)
    /\ wsClient = WsClientLoaded

\* The closing handshake of client c's socket begins (the peer's close frame
\* has arrived): its readyState is CLOSING and its close event has not been
\* emitted yet, so it is still a member of its project's set.
PeerClosing(c) ==
    /\ conn[c] = "open"
    /\ conn' = [conn EXCEPT ![c] = "closing"]
    /\ sent' = NoFrames
    /\ emitted' = <<>>
    /\ last' = Op("closing", c, currentProject[c], currentProject[c], 0, <<>>, 0)
    /\ UNCHANGED <<stateRoot, disk, currentProject, projectClients,
                   projectWatchers, fileWatchers, closed, snapshotOf>>
    /\ UNCHANGED <<server, wsClient>>

\* broadcast(projectPath, event, data) for any project: each recipient is sent
\* the one serialized frame.
Broadcast(p, ev) ==
    /\ sent' = [c \in Clients |->
                  IF c \in broadcast(Hub, p) THEN <<LiveFrame(ev, p, 0)>> ELSE <<>>]
    /\ emitted' = <<>>
    /\ last' = Op("broadcast", Null, p, Null, 0, <<>>, 0) @@ [ev |-> ev]
    /\ UNCHANGED <<stateRoot, disk, conn, currentProject, projectClients,
                   projectWatchers, fileWatchers, closed, snapshotOf>>
    /\ UNCHANGED <<server, wsClient>>

NextBroadcast ==
    \/ \E c \in Clients : PeerClosing(c)
    \/ \E c \in Clients : Close(c)
    \/ \E p \in Projects, ev \in BroadcastEvents : Broadcast(p, ev)

SpecBroadcast == InitBroadcast /\ [][NextBroadcast]_vars
\* --------------------------------------------------- a FileWatcher by itself
AlreadyStarted == "FileWatcher already started"
WatchPathMissing == "Watch path does not exist"

\* FileWatcher.start that replaces the watch of a running watcher instead of
\* throwing.
FileWatcher_start_Restart(w, rootExists) ==
    IF ~rootExists /\ ~w.watcher THEN [fw |-> w, error |-> WatchPathMissing]
    ELSE [fw |-> [start(w) EXCEPT !.ready = FALSE], error |-> Null]

\* FileWatcher.start without the fs.existsSync check of the watch path.
FileWatcher_start_NoExistsCheck(w, rootExists) ==
    IF w.watcher THEN [fw |-> w, error |-> AlreadyStarted]
    ELSE [fw |-> start(w), error |-> Null]

\* FileWatcher.start(projectPath) with its two throws; rootExists is what
\* fs.existsSync(watchPath) answers.  error is the message of the Error thrown,
\* Null when start returns.
FileWatcher_start(w, rootExists) ==
    IF w.watcher THEN [fw |-> w, error |-> AlreadyStarted]
    ELSE IF ~rootExists THEN [fw |-> w, error |-> WatchPathMissing]
    ELSE [fw |-> start(w), error |-> Null]

\* A call of a FileWatcher method: the watcher before the call and the error
\* thrown are kept in last.
Call(op, p, before, error) ==
    Op(op, Null, p, Null, 1, <<>>, 0) @@ [before |-> before, error |-> error]

\* One FileWatcher, constructed and not started, used by itself; the state root
\* of its project exists or not.
InitWatcher ==
    /\ stateRoot \in [Projects -> BOOLEAN]
    /\ fileWatchers = <<NewWatcher("P1")>>
    /\ disk = [p \in Projects |-> Absent]
    /\ conn = [c \in Clients |-> "closed"]
    /\ currentProject = [c \in Clients |-> Null]
    /\ projectClients = EmptyMap
    /\ projectWatchers = EmptyMap
    /\ closed = FALSE
    /\ sent = NoFrames
    /\ emitted = <<>>
    /\ snapshotOf = [c \in Clients |-> Null]
    /\ last = Op("init", Null, Null, Null, 0, <<>>, 0)
    /\ server = ServerStarted(TRUE)
    /\ wsClient = WsClientLoaded

\* watcher.start(projectPath) by the owner of the watcher.
WatcherStart ==
    /\ LET w == fileWatchers[1]
           result == FileWatcher_start(w, stateRoot[w.project])
       IN  /\ fileWatchers' = [fileWatchers EXCEPT ![1] = result.fw]
           /\ last' = Call("start", w.project, w, result.error)
    /\ sent' = NoFrames
    /\ emitted' = <<>>
    /\ UNCHANGED <<stateRoot, disk, conn, currentProject, projectClients,
                   projectWatchers, closed, snapshotOf>>
    /\ UNCHANGED <<server, wsClient>>

\* watcher.stop() by the owner of the watcher.
WatcherStop ==
    /\ LET w == fileWatchers[1]
       IN  /\ fileWatchers' = [fileWatchers EXCEPT ![1] = stop(w)]
           /\ last' = Call("stop", w.project, w, Null)
    /\ sent' = NoFrames
    /\ emitted' = <<>>
    /\ UNCHANGED <<stateRoot, disk, conn, currentProject, projectClients,
                   projectWatchers, closed, snapshotOf>>
    /\ UNCHANGED <<server, wsClient>>

\* Another process removes the state root of project p.
RemoveStateRoot(p) ==
    /\ stateRoot[p]
    /\ stateRoot' = [stateRoot EXCEPT ![p] = FALSE]
    /\ disk' = [disk EXCEPT ![p] = Absent]
    /\ sent' = NoFrames
    /\ emitted' = <<>>
    /\ last' = Op("rmroot", Null, p, Null, 0, <<>>, 0)
    /\ UNCHANGED <<conn, currentProject, projectClients, projectWatchers,
                   fileWatchers, closed, snapshotOf>>
    /\ UNCHANGED <<server, wsClient>>

NextWatcher ==
    \/ WatcherStart
    \/ WatcherStop
    \/ ChokidarReady(1)
    \/ \E f \in Files, content \in Contents : FileChanged("P1", f, content)
    \/ \E f \in Files : TimerFire(1, f)
    \/ CreateStateRoot("P1")
    \/ RemoveStateRoot("P1")

SpecWatcher == InitWatcher /\ [][NextWatcher]_vars
\* ------------------------------------------- a client the server turns away
\* The close code the client sees when the server closes a socket with
\* ws.close() and no code, as handleConnection does for a rejected path: 1005,
\* no status received.
RejectedCloseCode == 1005

\* The page calls WsClient.connect(projectPath) while it has no target project.
PageConnects(projectPath) ==
    /\ wsClient.currentProjectPath = Null
    /\ UserConnect(projectPath, FALSE)

\* The server has accepted the connection of socket i and closes it at once.
ServerRejects(i) ==
    /\ i \in DOMAIN wsClient.sockets
    /\ wsClient.sockets[i].readyState = "OPEN"
    /\ SocketClose(i, RejectedCloseCode)

\* A socket the client closed itself has finished closing.
Abandoned(i) ==
    /\ i \in DOMAIN wsClient.sockets
    /\ wsClient.sockets[i].readyState = "CLOSING"
    /\ SocketClose(i, 1000)

\* The browser client against a server that rejects the project path: every
\* connection the client does not give up itself opens, and is then closed by
\* the server.
NextReject ==
    \/ \E projectPath \in Projects : PageConnects(projectPath)
    \/ UserDisconnect
    \/ ReconnectTimer(FALSE)
    \/ \E i \in 1..MaxSockets : SocketOpen(i)
    \/ \E i \in 1..MaxSockets : ServerRejects(i)
    \/ \E i \in 1..MaxSockets : Abandoned(i)

SpecReject == InitClient /\ [][NextReject]_vars
\* ----------------------------------------------- the page's task list
\* Task lists of the store as a snapshot leaves them: up to two tasks with
\* distinct ids, each { id, status }.
StoreTasks ==
    {[id |-> id, status |-> st] : id \in {"TASK1", "TASK7"},
                                  st \in {"pending", "in_progress"}}
StoreLists ==
    {<<>>} \cup {<<t>> : t \in StoreTasks}
    \cup {l \in {<<t, u>> : t \in StoreTasks, u \in StoreTasks} : l[1].id # l[2].id}

\* The status documents a watcher may read.
StatusDocs == {ValidJson, OwnIdJson, NestedJson, Garbage}

\* handleTaskStatus(message) on the task list: taskId and execution are the
\* fields of message.data of those names; the list is touched only when both
\* are truthy, and then the first entry of that id is replaced by
\* { id: taskId, ...execution } or the entry is added at the end.
handleTaskStatus(tasks, data) ==
    IF "taskId" \notin DOMAIN data \/ "execution" \notin DOMAIN data THEN tasks
    ELSE LET task == Spread([id |-> data.taskId], data.execution)
             found == {i \in DOMAIN tasks : tasks[i].id = data.taskId}
         IN  IF found # {}
             THEN [tasks EXCEPT ![CHOOSE i \in found : \A j \in found : i <= j] = task]
             ELSE Append(tasks, task)

\* handleMessage(message) on the task list: of the live events only task:status
\* changes it.
handleMessage(tasks, message) ==
    IF message.event = "task:status" THEN handleTaskStatus(tasks, message.data)
    ELSE tasks

\* A page connected to project P1 with its task list loaded, and a file of the
\* project that has just changed.
InitStore ==
    /\ \E p \in {"P1"}, tasks \in StoreLists, f \in {StatusFile, PromptFile},
          content \in StatusDocs :
         /\ (f # StatusFile) => content = ValidJson
         /\ wsClient = [WsClientLoaded EXCEPT
                          !.ws = 1,
                          !.sockets = <<[NewSocket(p) EXCEPT !.readyState = "OPEN"]>>,
                          !.currentProjectPath = p,
                          !.tasks = tasks]
         /\ last = Op("changed", Null, p, Null, 0, f, 0) @@ [content |-> content]
    /\ server = ServerStarted(TRUE)
    /\ stateRoot = [p \in Projects |-> TRUE]
    /\ disk = [p \in Projects |-> Absent]
    /\ conn = [c \in Clients |-> "closed"]
    /\ currentProject = [c \in Clients |-> Null]
    /\ projectClients = EmptyMap
    /\ projectWatchers = EmptyMap
    /\ fileWatchers = <<>>
    /\ closed = FALSE
    /\ sent = NoFrames
    /\ emitted = <<>>
    /\ snapshotOf = [c \in Clients |-> Null]

\* The server's watcher maps the changed file to its event and the frame is
\* sent to the page.
ServerFrame ==
    /\ last.op = "changed"
    /\ last' = [last EXCEPT !.op = "frame"]
                 @@ [frame |-> mapToEvent(FullPath(last.p, last.f), last.content),
                     before |-> wsClient.tasks]
    /\ UNCHANGED wsClient
    /\ UNCHANGED hubVars

\* ws.onmessage of the page: the frame is parsed and handled.
ClientMessage ==
    /\ last.op = "frame"
    /\ wsClient' = [wsClient EXCEPT !.tasks = handleMessage(@, last.frame)]
    /\ last' = [last EXCEPT !.op = "handled"]
    /\ UNCHANGED hubVars

NextStore ==
    \/ ServerFrame
    \/ ClientMessage

SpecStore == InitStore /\ [][NextStore]_vars

\* ------------------------------------------------------------------ claims
HasSubscribers(p) == p \in DOMAIN projectClients /\ projectClients[p] # {}
HasWatcher(p) == p \in DOMAIN projectWatchers
\* p has subscribers but no watcher.
Degraded(p) == HasSubscribers(p) /\ ~HasWatcher(p)

\* C1 (as stated): at every point a watcher exists for a project path if and
\* only if the path's subscriber set is non-empty.
C1_WatcherIffSubscribers ==
    \A p \in Projects : HasWatcher(p) <=> HasSubscribers(p)

\* C1 (amended): a registered watcher always has subscribers, a subscriber set is
\* never kept empty, and a project comes to have subscribers without a watcher
\* only in a step in which watcher.start() found the state root missing.
C1_NoOrphanWatcher ==
    /\ [](\A p \in Projects :
            /\ HasWatcher(p) => HasSubscribers(p)
            /\ p \in DOMAIN projectClients => projectClients[p] # {})
    /\ [][\A p \in Projects :
            (Degraded(p)' /\ ~Degraded(p)) =>
                /\ ~stateRoot'[p]
                /\ last'.op \in {"connect", "resubscribe"}
                /\ last'.p = p]_vars

C1_Witness ==
    \E p, q \in Projects :
        /\ Degraded(p)
        /\ HasWatcher(q) /\ HasSubscribers(q)
        /\ last.op \in {"connect", "resubscribe"}

\* C2: at most one started, not yet stopped FileWatcher exists per project path.
C2_OneWatcherPerProject ==
    \A p \in Projects : Cardinality(Running(p)) <= 1

\* A watcher of a project was stopped and a later one runs for the same project.
C2_Witness ==
    \E v, w \in DOMAIN fileWatchers :
        /\ v < w
        /\ fileWatchers[v].project = fileWatchers[w].project
        /\ ~fileWatchers[v].watcher
        /\ fileWatchers[w].watcher

\* C3: a client is a member of at most one subscriber set, and after a Subscribe
\* of a client it is a member of the target project's set only.
C3_OneSetPerClient ==
    /\ \A c \in Clients :
         Cardinality({p \in DOMAIN projectClients : c \in projectClients[p]}) <= 1
    /\ last.op \in {"connect", "resubscribe"} =>
         \A q \in Projects :
            (q \in DOMAIN projectClients /\ last.c \in projectClients[q]) <=> q = last.p

\* A client that was a member of another project's set has re-subscribed.
C3_Witness ==
    /\ last.op = "resubscribe"
    /\ last.n >= 1
    /\ last.prev # last.p

\* C4: a live event frame of project P reaches a client only after the
\* project:state frame of P, with no project:state frame of another project
\* in between.
C4_SnapshotBeforeLive ==
    \A c \in Clients : \A i \in 1..Len(sent[c]) :
        IsLive(sent[c][i]) => snapshotOf[c] = sent[c][i].via.project

C4_Witness ==
    \E c \in Clients :
        /\ last.op = "fire"
        /\ sent[c] # <<>>
        /\ IsLive(sent[c][1])

\* C6: after a client re-subscribes from P1 to another project P2 it is no member
\* of P1's set and receives live frames of its current project only; if it was
\* the last P1 subscriber, P1 has no entry in either map and no running watcher.
C6_ResubscribeIsolation ==
    /\ (last.op = "resubscribe" /\ last.prev # Null /\ last.prev # last.p) =>
          /\ ~(last.prev \in DOMAIN projectClients
                 /\ last.c \in projectClients[last.prev])
          /\ last.n = 1 =>
                /\ last.prev \notin DOMAIN projectClients
                /\ last.prev \notin DOMAIN projectWatchers
                /\ Running(last.prev) = {}
    /\ \A c \in Clients : \A i \in 1..Len(sent[c]) :
          IsLive(sent[c][i]) => sent[c][i].via.project = currentProject[c]

\* The last subscriber of a watched project has moved to another project.
C6_Witness ==
    /\ last.op = "resubscribe"
    /\ last.prev # Null /\ last.prev # last.p
    /\ last.n = 1
    /\ \E w \in DOMAIN fileWatchers : fileWatchers[w].project = last.prev

\* C7: when a subscriber of a project with two or more subscribers disconnects,
\* both maps keep the project, the same watcher instance stays registered and
\* untouched, and its events still reach every open member; when the only
\* subscriber disconnects, the project's watcher is stopped and unregistered.
C7_WatcherSurvivesDisconnect ==
    /\ [][\A c \in Clients :
            (conn[c] # "closed" /\ conn'[c] = "closed" /\ SizeWith(c, currentProject[c]) >= 1) =>
               LET p == currentProject[c]
               IN  IF SizeWith(c, p) >= 2
                   THEN /\ projectWatchers' = projectWatchers
                        /\ fileWatchers' = fileWatchers
                        /\ projectClients' = Put(projectClients, p, projectClients[p] \ {c})
                   ELSE /\ p \notin DOMAIN projectWatchers'
                        /\ p \notin DOMAIN projectClients'
                        /\ \A w \in DOMAIN fileWatchers' :
                              fileWatchers'[w].project = p => ~fileWatchers'[w].watcher]_vars
    /\ []((/\ last.op = "fire"
           /\ emitted # <<>>
           /\ last.p \in DOMAIN projectWatchers
           /\ projectWatchers[last.p] = last.w) =>
            \A c \in projectClients[last.p] :
               conn[c] = "open" =>
                  /\ Len(sent[c]) = 1
                  /\ sent[c][1].via = [project |-> last.p, watcher |-> last.w])

\* One of two subscribers of a watched project has disconnected.
C7_Witness ==
    /\ last.op = "close"
    /\ last.n >= 2
    /\ last.w # 0
    /\ fileWatchers[last.w].watcher

\* C8: once the close event of a client has been handled, the client is a member
\* of no subscriber set and no frame is sent to it.
C8_ClosedClientUnsubscribed ==
    \A c \in Clients :
        conn[c] = "closed" =>
           /\ \A p \in DOMAIN projectClients : c \notin projectClients[p]
           /\ sent[c] = <<>>

\* A subscribed client has disconnected while its project keeps a subscriber.
C8_Witness ==
    /\ last.op = "close"
    /\ last.n >= 2
    /\ conn[last.c] = "closed"
    /\ HasSubscribers(last.p)

\* The classification of file f of project p is suppressed (no event).
Suppressed(p, f) == mapToEvent(FullPath(p, f), ValidJson) = NoEvent

\* C9: however many raw events arrive for a path before its timer fires, one
\* timeout is pending for the path and nothing is emitted; when it fires,
\* exactly one semantic event is emitted (none for a suppressed path) and no
\* timeout for the path is left.
C9_DebounceCoalesces ==
    /\ \A w \in DOMAIN fileWatchers : \A f \in Files :
          /\ fileWatchers[w].timeouts[f] <= 1
          /\ fileWatchers[w].timeouts[f] = 1 <=> f \in fileWatchers[w].debounceTimers
    /\ last.op = "raw" =>
          /\ fileWatchers[last.w].timeouts[last.f] = 1
          /\ emitted = <<>>
    /\ last.op = "fire" =>
          /\ fileWatchers[last.w].timeouts[last.f] = 0
          /\ Len(emitted) = IF Suppressed(last.p, last.f) THEN 0 ELSE 1

\* The timer fired after a burst of MaxBurst raw events and one event was emitted.
C9_Witness ==
    /\ last.op = "fire"
    /\ last.n = MaxBurst
    /\ Len(emitted) = 1

\* C10: a raw event or a timer firing for one path leaves the pending timer of
\* every other path of the watcher as it was, and a firing timer emits the
\* event of its own path.
C10_IndependentDebounce ==
    /\ [][\A w \in DOMAIN fileWatchers : \A a \in Files :
            (last'.op \in {"raw", "fire"} /\ last'.w = w /\ last'.f # a) =>
               /\ fileWatchers'[w].timeouts[a] = fileWatchers[w].timeouts[a]
               /\ (a \in fileWatchers'[w].debounceTimers) <=>
                     (a \in fileWatchers[w].debounceTimers)]_vars
    /\ []((last.op = "fire" /\ ~Suppressed(last.p, last.f)) =>
            /\ Len(emitted) = 1
            /\ emitted[1].w = last.w
            /\ emitted[1].event.event =
                  mapToEvent(FullPath(last.p, last.f), ValidJson).event)

\* A timer fired and emitted while another path's timer is still pending.
C10_Witness ==
    /\ last.op = "fire"
    /\ emitted # <<>>
    /\ \E a \in Files : a # last.f /\ fileWatchers[last.w].timeouts[a] = 1

\* Client c is an open member of the set of a project whose watcher was started.
Live(c, p) ==
    /\ conn[c] = "open"
    /\ p \in DOMAIN projectClients /\ c \in projectClients[p]
    /\ p \in DOMAIN projectWatchers

\* C5: a change of a watched file (of a classification that is not suppressed)
\* made while client c is subscribed, after its snapshot, with the watcher
\* started, is eventually delivered to c as a live frame, unless c leaves or
\* re-subscribes first.
C5_NoMissedChange ==
    \A c \in Clients :
        (/\ last.op \in {"raw", "write"}
         /\ ~Suppressed(last.p, last.f)
         /\ Live(c, last.p))
        ~> (\/ sent[c] # <<>> /\ IsLive(sent[c][1])
            \/ ~\E p \in Projects : Live(c, p)
            \/ last.op \in {"connect", "resubscribe", "close"})

\* Watcher w has been stopped (a FileWatcher of the handler is started when it
\* is constructed and never started again).
Stopped(w) == ~fileWatchers[w].watcher

\* C11: once stop() of a watcher has returned, the watcher has no pending
\* debounce timer (those pending at the stop were cancelled), it handles no raw
\* event and sets no timer, it emits nothing, and no frame of it reaches a client.
C11_StoppedWatcherSilent ==
    /\ [](\A w \in DOMAIN fileWatchers :
            Stopped(w) =>
               /\ fileWatchers[w].debounceTimers = {}
               /\ \A f \in Files : fileWatchers[w].timeouts[f] = 0
               /\ \A i \in 1..Len(emitted) : emitted[i].w # w
               /\ \A c \in Clients : \A i \in 1..Len(sent[c]) :
                     sent[c][i].via.watcher # w)
    /\ [][\A w \in DOMAIN fileWatchers :
            Stopped(w) =>
               /\ fileWatchers'[w] = fileWatchers[w]
               /\ \A i \in 1..Len(emitted') : emitted'[i].w # w
               /\ \A c \in Clients : \A i \in 1..Len(sent'[c]) :
                     sent'[c][i].via.watcher # w]_vars

\* The close of the only subscriber stopped a watcher that had a timer pending.
C11_Witness ==
    /\ last.op = "close"
    /\ last.w # 0
    /\ last.f # <<>>
    /\ Stopped(last.w)

\* The event name the classification table gives a basename.
TableEvent(b) ==
    CASE b = "execution.json" -> "task:status"
      [] b = "BLUEPRINT.md" -> "task:blueprint"
      [] b = "CODE_REVIEW.md" -> "task:review"
      [] b = "AI_PROMPT.md" -> "prompt:changed"
      [] b = "done.txt" -> "project:completed"
      [] OTHER -> "file:changed"

NeedsTaskId(b) == b \in {"execution.json", "BLUEPRINT.md", "CODE_REVIEW.md"}

\* The path and the content that the last classification was about.
ClassifiedPath == FullPath(last.p, last.f)
ClassifiedContent == last.content

RECURSIVE NearestTaskDir(_)
NearestTaskDir(path) ==
    IF Len(path) <= 1 THEN Null
    ELSE LET dirs == SubSeq(path, 1, Len(path) - 1)
         IN  IF IsTaskDir(dirs[Len(dirs)]) THEN dirs[Len(dirs)]
             ELSE NearestTaskDir(dirs)

\* C13 (as stated): the taskId of an emitted status, blueprint or review event
\* is the name of the nearest ancestor directory of the file that matches the
\* task-ID pattern, the name under which the snapshot reports the task.
C13_TaskIdIsNearestTaskDir ==
    (last.op = "classified" /\ NeedsTaskId(basename(last.f)) /\ emitted # <<>>) =>
        emitted[1].event.data.taskId = NearestTaskDir(ClassifiedPath)


\* C14: when the status document of a file inside a task directory cannot be
\* read or is not valid JSON, exactly one task:status event is emitted, and
\* its payload has the taskId that was extracted and an error field, and
\* nothing else.
C14_UnreadableStatusStillEmitted ==
    (/\ last.op = "classified"
     /\ basename(last.f) = "execution.json"
     /\ NearestTaskDir(last.f) # Null
     /\ ClassifiedContent \in {Garbage, Absent, Unreadable}) =>
        /\ Len(emitted) = 1
        /\ emitted[1].event.event = "task:status"
        /\ DOMAIN emitted[1].event.data = {"taskId", "error"}
        /\ emitted[1].event.data.taskId = FirstTaskMatch(ClassifiedPath)
        /\ emitted[1].event.data.taskId # Null

\* A status document with invalid JSON in a task directory was classified.
C14_Witness ==
    /\ last.op = "classified"
    /\ last.f = <<"TASK10", "execution.json">>
    /\ ClassifiedContent = Garbage
    /\ emitted # <<>>
    /\ "error" \in DOMAIN emitted[1].event.data

\* The entries of the listing that are task directories with a status document.
TasksWithStatus(listing) ==
    {listing[i] : i \in {j \in 1..Len(listing) :
                           /\ listing[j].kind = "dir"
                           /\ IsTaskDir(listing[j].name)
                           /\ listing[j].doc # Absent}}

\* C15: the tasks map of a snapshot has an entry for exactly the immediate
\* subdirectories of the state root that match the task-ID pattern and hold a
\* status document: the parsed object when it parses, an entry with an error
\* field when reading or parsing fails.
C15_SnapshotEntries ==
    last.op = "snapshot" =>
       LET tasks == last.state.tasks
       IN  /\ DOMAIN tasks = {e.name : e \in TasksWithStatus(last.listing)}
           /\ \A e \in TasksWithStatus(last.listing) :
                 IF e.doc = ValidJson
                 THEN tasks[e.name] = ParsedFields(e.doc)
                 ELSE "error" \in DOMAIN tasks[e.name]

\* A snapshot of a state root with a parsable task, a task whose document does
\* not parse, and an entry that is no task directory.
C15_Witness ==
    /\ last.op = "snapshot"
    /\ \E e \in TasksWithStatus(last.listing) : e.doc = ValidJson
    /\ \E e \in TasksWithStatus(last.listing) :
          e.doc = Garbage /\ "error" \in DOMAIN last.state.tasks[e.name]
    /\ \E i \in 1..Len(last.listing) : ~IsTaskDir(last.listing[i].name)

\* The number of a task ID.
TaskNumber(name) == Num(Spelling(name)[2])

\* C16: the snapshot lists its tasks in the numeric order of their IDs: each
\* key of the tasks map is listed once, and TASKm comes before TASKn when m < n.
C16_NaturalOrder ==
    last.op = "snapshot" =>
       LET order == last.state.order
       IN  /\ {order[i] : i \in 1..Len(order)} = DOMAIN last.state.tasks
           /\ \A i, j \in 1..Len(order) :
                 i < j => TaskNumber(order[i]) < TaskNumber(order[j])

\* TASK2, TASK10, TASK1 were listed in this order and are rendered as TASK1,
\* TASK2, TASK10.
C16_Witness ==
    /\ last.op = "snapshot"
    /\ [i \in 1..Len(last.listing) |-> last.listing[i].name] = <<"TASK2", "TASK10", "TASK1">>
    /\ last.state.order = <<"TASK1", "TASK2", "TASK10">>

\* The decoded candidate of the last validation, and its resolved path.
DecodedCandidate == decodeURIComponent(last.projectPath).value
ResolvedCandidate == resolve(DecodedCandidate)

\* The checks of the validator that the candidate of the last validation
\* fails, numbered in the order traversal (1), not in the allowed paths (2),
\* does not exist (3), not a directory (4), missing state root (5).
FailedChecks ==
    {n \in 1..5 :
        CASE n = 1 -> includesDotDot(DecodedCandidate)
          [] n = 2 -> /\ last.allowedPaths # {}
                      /\ ~isAllowed(ResolvedCandidate, last.allowedPaths)
          [] n = 3 -> last.kind = "missing"
          [] n = 4 -> last.kind \in {"missing", "file"}
          [] n = 5 -> last.kind \in {"missing", "file", "bare"}}

\* The rejection reason of each check.
ReasonOf(n) ==
    CASE n = 1 -> "Path traversal detected - paths containing \"..\" are not allowed"
      [] n = 2 -> "Project path is not in the allowed paths list"
      [] n = 3 -> "Project path does not exist"
      [] n = 4 -> "Project path is not a directory"
      [] n = 5 -> "Project does not contain .claudiomiro/task-executor/ directory"

\* C17: the validation of a candidate that decodes is rejected with the reason
\* of the earliest check it fails, in the order traversal, not in the allowed
\* paths, does not exist, not a directory, missing state root; a candidate
\* that fails none is accepted with its resolved absolute path.
C17_FirstFailingCheck ==
    (last.op = "validated" /\ decodeURIComponent(last.projectPath).ok) =>
        IF FailedChecks = {}
        THEN last.validation = [valid |-> TRUE, resolvedPath |-> ResolvedCandidate]
        ELSE LET first == CHOOSE n \in FailedChecks : \A m \in FailedChecks : n <= m
             IN  last.validation = [valid |-> FALSE, error |-> ReasonOf(first)]

\* A candidate with a parent traversal that is outside the allowed paths and
\* does not exist was rejected as a traversal.
C17_Witness ==
    /\ last.op = "validated"
    /\ {1, 2, 3} \subseteq FailedChecks
    /\ last.validation.error = ReasonOf(1)


\* The names of an absolute path string.
NamesOf(str) == Normalize(<<>>, Split(str))

\* The path of the names is the allowed root or lies under it, name by name.
Under(names, root) ==
    Len(root) <= Len(names) /\ SubSeq(names, 1, Len(root)) = root

\* C18 (as stated): with a non-empty allow-list, a candidate is rejected as not
\* in the allowed paths exactly when its resolved path neither equals an
\* allowed root nor lies under one name by name: a sibling that shares a
\* string prefix with a root is rejected, every path under a root passes.
C18_ComponentWiseAllowList ==
    (/\ last.op = "validated"
     /\ decodeURIComponent(last.projectPath).ok
     /\ ~includesDotDot(DecodedCandidate)
     /\ last.allowedPaths # {}) =>
        ((last.validation = [valid |-> FALSE, error |-> ReasonOf(2)])
           <=> ~\E a \in last.allowedPaths :
                  Under(NamesOf(ResolvedCandidate), NamesOf(resolve(a))))


\* C19: when the project path of an accepted upgrade request fails validation,
\* the new socket receives the error frame and nothing else, is closed by the
\* server, no other client receives a frame, and the subscriber map, the
\* watcher map and the watchers are unchanged.
C19_InvalidConnectRejected ==
    [][\A c \in Clients :
         (conn[c] = "closed" /\ conn'[c] # "closed" /\ ~ValidProject(last'.p)) =>
            /\ conn'[c] = "rejected"
            /\ sent'[c] = <<ErrorFrame>>
            /\ \A d \in Clients \ {c} : sent'[d] = <<>>
            /\ projectClients' = projectClients
            /\ projectWatchers' = projectWatchers
            /\ fileWatchers' = fileWatchers]_vars

\* A connection was rejected while another project has a subscriber and a
\* watcher.
C19_Witness ==
    /\ last.op = "reject"
    /\ conn[last.c] = "rejected"
    /\ sent[last.c] = <<ErrorFrame>>
    /\ \E q \in Projects : HasSubscribers(q) /\ HasWatcher(q)

\* C20: when an open client sends subscribe:project with a path that fails
\* validation, it receives the error frame and nothing else, no other client
\* receives a frame, and its socket, its subscription, both maps and the
\* watchers are unchanged, so that broadcasts of its prior project still
\* reach it.
C20_InvalidResubscribeRefused ==
    [][\A c \in Clients :
         (/\ last'.op \in {"refuse", "resubscribe"}
          /\ last'.c = c
          /\ conn[c] = "open"
          /\ ~ValidProject(last'.p)) =>
            /\ sent'[c] = <<ErrorFrame>>
            /\ \A d \in Clients \ {c} : sent'[d] = <<>>
            /\ conn' = conn
            /\ currentProject' = currentProject
            /\ snapshotOf' = snapshotOf
            /\ projectClients' = projectClients
            /\ projectWatchers' = projectWatchers
            /\ fileWatchers' = fileWatchers
            /\ c \in projectClients'[currentProject'[c]]]_vars

\* A client subscribed to a watched project was refused a re-subscription.
C20_Witness ==
    /\ last.op = "refuse"
    /\ conn[last.c] = "open"
    /\ sent[last.c] = <<ErrorFrame>>
    /\ last.prev # Null /\ last.prev # last.p
    /\ HasWatcher(last.prev)
    /\ last.c \in projectClients[last.prev]

\* C21: in every reachable state, every project path that has a subscriber set
\* or a watcher, and every path a socket is subscribed to, is the resolved path
\* of a directory that passes validateProjectPath against the server's project
\* paths, whatever connects and subscribe:project messages came before.
C21_OnlyValidatedPaths ==
    \A d \in DOMAIN projectClients \cup DOMAIN projectWatchers
             \cup {currentProject[c] : c \in {x \in Clients : conn[x] \in {"open", "closing"}}} :
        /\ d \in Dirs
        /\ resolve(DirPath(d)) = DirPath(d)
        /\ validateProjectPath(DirPath(d), projectPaths, KindAt(d)).valid

\* A socket subscribed to P1/sub has asked for P1 by a path with a trailing
\* separator and is subscribed to P1's resolved path, after another request on
\* a socket was refused.
C21_Witness ==
    /\ last.op = "resubscribe"
    /\ last.prev = "P1/sub"
    /\ last.message.projectPath = DirPath("P1") \o <<sep>>
    /\ currentProject[last.c] = "P1"
    /\ last.c \in projectClients["P1"]
    /\ \E c \in Clients : conn[c] = "rejected"

\* A message the handler has nothing to do for: its text is not JSON, or it has
\* no event field, or its event is not subscribe:project.
Ignorable(message) ==
    \/ ~message.json
    \/ ~message.object
    \/ message.event = Null
    \/ message.event # SubscribeProject

\* C22: an inbound message that is not JSON, that has no event field, or whose
\* event is not subscribe:project is silently ignored: no exception leaves the
\* message handler, no frame is sent, and the client's subscription, both maps,
\* the watchers and the sockets stay as they were.
C22_MalformedMessageIgnored ==
    [][("message" \in DOMAIN last' /\ Ignorable(last'.message)) =>
          /\ last'.op # "throw"
          /\ ~Crashed'
          /\ sent' = NoFrames
          /\ UNCHANGED <<conn, currentProject, projectClients, projectWatchers,
                         fileWatchers, snapshotOf, closed>>]_vars

\* A text that is not JSON has come from a subscribed client whose project has
\* a watcher, after a message without an event field.
C22_Witness ==
    /\ last.op = "caught"
    /\ ~last.message.json
    /\ currentProject[last.c] \in DOMAIN projectWatchers
    /\ last.c \in projectClients[currentProject[last.c]]
    /\ conn[last.c] = "open"

\* C23: for every value of the project parameter of an upgrade request,
\* handleConnection ends in the rejected outcome (error frame, close) or in a
\* completed subscription; no exception leaves it.
C23_ConnectionHandlerTotal ==
    [][\A c \in Clients :
          (conn[c] = "closed" /\ conn'[c] # "closed") =>
             \/ /\ conn'[c] = "rejected"
                /\ sent'[c] = <<ErrorFrame>>
                /\ currentProject'[c] = Null
             \/ /\ conn'[c] = "open"
                /\ currentProject'[c] \in DOMAIN projectClients'
                /\ c \in projectClients'[currentProject'[c]]
                /\ Len(sent'[c]) = 1
                /\ sent'[c][1].event = "project:state"]_vars

\* C24: when shutdown() has returned, every FileWatcher is stopped with no
\* debounce timer pending, close() has been called on every socket (none is
\* left open), both maps are empty and the WebSocket server is closed; and
\* shutdown() can be called when nothing is subscribed.
C24_ShutdownClearsAll ==
    /\ last.op = "shutdown" =>
          /\ \A w \in DOMAIN fileWatchers :
                /\ Stopped(w)
                /\ fileWatchers[w].debounceTimers = {}
                /\ \A f \in Files : fileWatchers[w].timeouts[f] = 0
          /\ \A c \in Clients : conn[c] # "open"
          /\ projectClients = EmptyMap
          /\ projectWatchers = EmptyMap
          /\ closed
    /\ (~closed /\ projectClients = EmptyMap /\ projectWatchers = EmptyMap) =>
          ENABLED Shutdown

\* shutdown() has run with two projects subscribed, each by one client and
\* with its watcher.
C24_Witness ==
    /\ last.op = "shutdown"
    /\ Len(fileWatchers) = 2
    /\ \A c \in Clients : conn[c] = "closing"
    /\ currentProject["c1"] # currentProject["c2"]
    /\ \A w \in DOMAIN fileWatchers : fileWatchers[w].listeners

\* C25: on SIGINT or SIGTERM the process calls the WebSocket handler's
\* shutdown() before httpServer.close(), whose call releases the listening
\* socket, and process.exit is called only from the close callback, after every
\* connection has ended; without a WebSocket handler httpServer.close() is
\* still called and the process still exits.
C25_ShutdownBeforeHttpClose ==
    LET calls == server.calls
    IN  /\ \A i \in DOMAIN calls :
              /\ (calls[i] = "httpServer.close" /\ server.wsHandler) =>
                     (i > 1 /\ calls[i - 1] = "wsHandler.shutdown")
              /\ calls[i] = "process.exit" =>
                     /\ i > 1 /\ calls[i - 1] = "close callback"
                     /\ \E j \in 1..(i - 1) : calls[j] = "httpServer.close"
        /\ ~server.listening <=> \E i \in DOMAIN calls : calls[i] = "httpServer.close"
        /\ (~server.listening /\ server.wsHandler) => closed
        /\ server.exited <=> \E i \in DOMAIN calls : calls[i] = "process.exit"
        /\ last.op \in {"SIGINT", "SIGTERM"} =>
              /\ ~server.listening
              /\ server.closing > 0
              /\ \A w \in DOMAIN fileWatchers : Stopped(w)
        /\ (~server.exited /\ server.closing > 0 /\ \A c \in Clients : conn[c] = "closed")
              => ENABLED HttpCloseCallback

\* The process has exited after one signal that found a subscribed client and
\* its watcher, and after that client's socket had closed.
C25_Witness ==
    /\ server.exited
    /\ server.calls = <<"wsHandler.shutdown", "httpServer.close", "close callback",
                        "process.exit">>
    /\ Len(fileWatchers) > 0
    /\ \E c \in Clients : currentProject[c] # Null

\* min(2000 * 1.5^n, 30000) ms, in microseconds.
Backoff(n) ==
    CASE n = 0 -> 2000000
      [] n = 1 -> 3000000
      [] n = 2 -> 4500000
      [] n = 3 -> 6750000
      [] n = 4 -> 10125000
      [] n = 5 -> 15187500
      [] n = 6 -> 22781250
      [] OTHER -> 30000000

\* C26 as stated: a close with a code other than 1000 while a target project
\* is set schedules a reconnect after min(2000 * 1.5^attempts, 30000) ms,
\* attempts being the number of reconnects scheduled since the last successful
\* open; a successful open resets attempts to zero; a close with code 1000 or
\* with no target project schedules nothing.
C26_BackoffSinceOpen ==
    /\ (last.op = "closed" /\ last.code # 1000 /\ last.target # Null) =>
          last.delay = Backoff(last.sinceOpen)
    /\ last.op = "open" => wsClient.reconnectAttempts = 0
    /\ (last.op = "closed" /\ (last.code = 1000 \/ last.target = Null)) =>
          last.delay = 0

\* C26, amended: a close of the current socket with a code other than 1000
\* while a target project is set schedules a reconnect after
\* min(2000 * 1.5^attempts, 30000) ms, attempts being the number of reconnects
\* scheduled since the last successful open or the last disconnect(); both reset
\* attempts to zero; a close with code 1000, with no target project, or of a
\* socket that connect() or disconnect() has replaced schedules nothing.
C26_BackoffSinceReset ==
    /\ (last.op = "closed" /\ last.code # 1000 /\ last.target # Null
          /\ last.socket = last.ws) =>
          /\ last.delay = Backoff(last.sinceReset)
          /\ wsClient.reconnectTimer = last.delay
          /\ wsClient.reconnectAttempts = last.sinceReset + 1
    /\ last.op \in {"open", "disconnect"} => wsClient.reconnectAttempts = 0
    /\ (last.op = "closed"
          /\ (last.code = 1000 \/ last.target = Null \/ last.socket # last.ws)) =>
          last.delay = 0

\* The current socket has closed abnormally for the eighth time without an
\* open in between: the delay has reached the maximum.
C26_Witness ==
    /\ last.op = "closed"
    /\ last.code = 1006
    /\ last.socket = last.ws
    /\ last.sinceReset = 7
    /\ last.delay = MAX_RECONNECT_DELAY * UsPerMs

\* C27: on every successful open of a socket while a target project is set,
\* the client sends exactly one message on that socket, subscribe:project with
\* the project most recently passed to connect().
C27_SubscribeOnOpen ==
    (last.op = "open" /\ wsClient.currentProjectPath # Null) =>
        /\ last.send = <<[socket |-> last.socket, event |-> SubscribeProject,
                          data |-> [projectPath |-> last.connectArg]]>>
        /\ last.connectArg = wsClient.sockets[last.socket].project

\* The socket of a reconnect has opened, after the page had connected to P1 and
\* then to P2.
C27_Witness ==
    /\ last.op = "open"
    /\ last.socket = 3
    /\ wsClient.sockets[1].project = "P1"
    /\ wsClient.sockets[2].project = "P2"
    /\ last.connectArg = "P2"
    /\ last.sinceOpen > 0

\* C28: from a call of disconnect() until the page calls connect() again, the
\* target project is cleared, no reconnect timer is pending, no reconnect is
\* scheduled or made, and no socket is connecting or open; the close of the
\* disconnected socket schedules nothing.
C28_DisconnectSuppressesReconnect ==
    last.disconnected =>
        /\ wsClient.currentProjectPath = Null
        /\ wsClient.reconnectTimer = 0
        /\ wsClient.ws = 0
        /\ last.delay = 0
        /\ last.op \in {"disconnect", "closed"}
        /\ \A i \in DOMAIN wsClient.sockets :
              wsClient.sockets[i].readyState \in {"CLOSING", "CLOSED"}

\* The socket that disconnect() closed has reported its close with an abnormal
\* code, and a reconnect was pending when disconnect() was called earlier.
C28_Witness ==
    /\ last.disconnected
    /\ last.op = "closed"
    /\ last.code = 1006
    /\ last.sinceOpen > 0
    /\ Len(wsClient.sockets) >= 2

\* The validator rejects the project path of the last REST request, decoded as
\* the routes decode it.
RestOps == {"GET state", "GET tasks", "PUT prompt", "GET logs"}
ValidatorRejects(param) ==
    LET decodedPath == decodeProjectPath(param)
    IN  ~validateProjectPath(decodedPath, projectPaths,
                             KindOfRequest(decodedPath)).valid

\* C29: a REST request whose project path the path validator rejects is
\* answered with status 400 and a JSON error body, and no file under that path
\* is read or written.
C29_RejectedPathAnswered400 ==
    (last.op \in RestOps /\ ValidatorRejects(last.param)) =>
        /\ last.status = 400
        /\ ~last.success
        /\ last.reads = {}
        /\ last.writes = {}

\* C30: a re-subscribe of a client leaves the watcher of the project it was
\* subscribed to alone whenever that project still has a subscriber afterwards
\* (another client remains, or the client re-subscribed to the same project):
\* the same watcher instance stays registered, is neither stopped nor
\* restarted, and its pending debounce timers are kept.
C30_ResubscribeKeepsWatcher ==
    [][(/\ last'.op = "resubscribe"
        /\ last'.prev \in DOMAIN projectWatchers
        /\ last'.prev \in DOMAIN projectClients') =>
           LET p == last'.prev
               w == projectWatchers[p]
           IN  /\ p \in DOMAIN projectWatchers'
               /\ projectWatchers'[p] = w
               /\ fileWatchers'[w] = fileWatchers[w]]_vars

\* C31: when the watcher fails to start during a subscribe (the state root is
\* missing when start() looks for it), the subscribe still completes: the client
\* is a member of the project's set, an open client has received the
\* project:state snapshot, no watcher is registered for the project, and no
\* watcher of the project is left with listeners and not stopped.
C31_FailedStartDegrades ==
    (last.op \in {"connect", "resubscribe"} /\ ~stateRoot[last.p]) =>
        /\ last.p \in DOMAIN projectClients
        /\ last.c \in projectClients[last.p]
        /\ currentProject[last.c] = last.p
        /\ conn[last.c] = "open" =>
              /\ sent[last.c] = <<StateFrame(last.p, FALSE, Absent)>>
              /\ snapshotOf[last.c] = last.p
        /\ last.p \notin DOMAIN projectWatchers
        /\ \A w \in DOMAIN fileWatchers :
              fileWatchers[w].project = last.p => Stopped(w)

\* A subscribe whose watcher failed to start, by a client that was subscribed
\* to the other project, while an earlier watcher of the project was stopped.
C31_Witness ==
    /\ last.op = "resubscribe"
    /\ ~stateRoot[last.p]
    /\ last.prev # Null /\ last.prev # last.p
    /\ conn[last.c] = "open"
    /\ sent[last.c] # <<>>
    /\ \E w \in DOMAIN fileWatchers : fileWatchers[w].project = last.p

\* C32: a semantic event emitted by the watcher of project P is sent to exactly
\* the open clients that are members of P's subscriber set when it is delivered:
\* each of them receives the one live frame of the event, and a client that is
\* not a member (it subscribed to another project only, or has left P) or is
\* not open receives nothing.
C32_BroadcastToCurrentSet ==
    (last.op = "fire" /\ emitted # <<>>) =>
        \A c \in Clients :
            IF /\ conn[c] = "open"
               /\ last.p \in DOMAIN projectClients
               /\ c \in projectClients[last.p]
            THEN sent[c] = <<LiveFrame(emitted[1].event, last.p, last.w)>>
            ELSE sent[c] = <<>>

\* An event of a project's watcher reaches both clients, one of which joined
\* the project after the watcher was created.
C32_Witness ==
    /\ last.op = "fire"
    /\ emitted # <<>>
    /\ \A c \in Clients : sent[c] # <<>> /\ IsLive(sent[c][1])
    /\ projectWatchers[last.p] = last.w

\* C33: a broadcast to a project that has no subscriber set sends nothing;
\* otherwise every member of the set whose connection is open receives the
\* frame, and a member whose connection is not open is skipped while the open
\* members still receive it; nobody else receives anything.
C33_BroadcastSkipsClosed ==
    last.op = "broadcast" =>
        IF last.p \notin DOMAIN projectClients
        THEN \A c \in Clients : sent[c] = <<>>
        ELSE /\ \A c \in projectClients[last.p] :
                   /\ conn[c] = "open" => sent[c] = <<LiveFrame(last.ev, last.p, 0)>>
                   /\ conn[c] # "open" => sent[c] = <<>>
             /\ \A c \in Clients \ projectClients[last.p] : sent[c] = <<>>

\* A broadcast to a set with an open member and a member that is closing.
C33_Witness ==
    /\ last.op = "broadcast"
    /\ last.p \in DOMAIN projectClients
    /\ \E c \in projectClients[last.p] : conn[c] = "closing" /\ sent[c] = <<>>
    /\ \E c \in projectClients[last.p] : conn[c] = "open" /\ sent[c] # <<>>

\* Watcher w has no debounce timer pending.
NoTimers(w) ==
    /\ w.debounceTimers = {}
    /\ \A f \in Files : w.timeouts[f] = 0

\* C34: a FileWatcher is idle or running, and an idle one has no pending timer.
\* start() while running throws and leaves the watch and the pending timers as
\* they were; stop() throws nothing and leaves the watcher idle; stop() while
\* idle changes nothing, so a second stop() has no effect.
C34_StartStopStates ==
    /\ ~fileWatchers[1].watcher => NoTimers(fileWatchers[1])
    /\ (last.op = "start" /\ last.before.watcher) =>
          /\ last.error = AlreadyStarted
          /\ fileWatchers[1] = last.before
    /\ last.op = "stop" =>
          /\ last.error = Null
          /\ ~fileWatchers[1].watcher
          /\ NoTimers(fileWatchers[1])
          /\ ~last.before.watcher => fileWatchers[1] = last.before

\* start() was called on a running watcher that had a debounce timer pending.
C34_Witness ==
    /\ last.op = "start"
    /\ last.before.watcher
    /\ last.before.debounceTimers # {}
    /\ last.error # Null

\* C35: start() on a project whose state root does not exist throws, creates no
\* watch and leaves the watcher idle and as it was.
C35_MissingRootFailsFast ==
    (last.op = "start" /\ ~last.before.watcher /\ ~stateRoot[last.p]) =>
        /\ last.error = WatchPathMissing
        /\ ~fileWatchers[1].watcher
        /\ fileWatchers[1] = last.before

\* start() was called on an idle watcher whose state root is missing.
C35_Witness ==
    /\ last.op = "start"
    /\ ~last.before.watcher
    /\ ~stateRoot[last.p]
    /\ last.error = WatchPathMissing

\* C36: computing the snapshot always returns a result.  When the state root
\* can be listed the result has no error field, an entry that cannot be stat'd
\* has no key in the tasks map, and every other task directory with a status
\* document is still reported; when the state root cannot be read the result
\* has an empty tasks map and the error field.
C36_SnapshotNeverRaises ==
    last.op = "snapshot" =>
       LET state == last.state
           listing == last.listing
       IN  /\ state.projectPath = last.p
           /\ IF stateRoot[last.p]
              THEN /\ "error" \notin DOMAIN state
                   /\ \A i \in 1..Len(listing) :
                         /\ listing[i].kind = "unreadable" =>
                               listing[i].name \notin DOMAIN state.tasks
                         /\ listing[i] \in TasksWithStatus(listing) =>
                               listing[i].name \in DOMAIN state.tasks
              ELSE /\ state.tasks = EmptyMap
                   /\ "error" \in DOMAIN state
                   /\ state.error = "Failed to read project state"

\* A snapshot of a state root with a task directory that cannot be stat'd and
\* another task that is reported.
C36_Witness ==
    /\ last.op = "snapshot"
    /\ stateRoot[last.p]
    /\ \E i \in 1..Len(last.listing) :
          last.listing[i].kind = "unreadable" /\ IsTaskDir(last.listing[i].name)
    /\ \E e \in TasksWithStatus(last.listing) : e.name \in DOMAIN last.state.tasks

\* C37: once shutdown() has been called no watcher is started: whatever message
\* or close event of a closing connection is handled afterwards, the watcher
\* map stays empty and no FileWatcher holds a watch.
C37_NoWatcherAfterShutdown ==
    closed =>
        /\ projectWatchers = EmptyMap
        /\ \A w \in DOMAIN fileWatchers : Stopped(w)

\* The sockets of the client that are connecting or open.
LiveSockets ==
    {i \in DOMAIN wsClient.sockets :
        wsClient.sockets[i].readyState \in {"CONNECTING", "OPEN"}}

\* C38: in the browser client at most one reconnect timeout is pending, at most
\* one socket is connecting or open and it is the one held in ws, and no
\* reconnect timeout is pending while a socket is held in ws, open or not.
C38_OneTimerOneSocket ==
    /\ wsClient.timeouts <= 1
    /\ wsClient.timeouts = 1 <=> wsClient.reconnectTimer # 0
    /\ Cardinality(LiveSockets) <= 1
    /\ LiveSockets \subseteq {wsClient.ws}
    /\ wsClient.ws # 0 => wsClient.timeouts = 0

\* The current socket has opened after an earlier socket was closed and a
\* reconnect was scheduled.
C38_Witness ==
    /\ last.op = "open"
    /\ wsClient.ws = last.socket
    /\ wsClient.sockets[wsClient.ws].readyState = "OPEN"
    /\ \E i \in DOMAIN wsClient.sockets :
          i # wsClient.ws /\ wsClient.sockets[i].readyState = "CLOSED"
    /\ last.sinceOpen > 0

\* C39: when every connection attempt opens and is then closed by the server
\* with a non-normal code, the reconnect delays grow: the reconnect scheduled
\* when a socket closes that the reconnect timer had created, and that had
\* opened, has a delay above the initial delay.
C39_BackoffGrowsWhenRejected ==
    [][(/\ last.op = "open"
        /\ last.sinceReset >= 1
        /\ last'.op = "closed"
        /\ last'.socket = last.socket
        /\ last'.code # 1000
        /\ last'.delay # 0) =>
           last'.delay > INITIAL_RECONNECT_DELAY * UsPerMs]_vars

\* C40: after the page has handled a task:status frame as the server sends it,
\* its task list has exactly one entry of the frame's taskId, and that entry
\* carries the status of the frame.
C40_TaskStatusUpdatesList ==
    (last.op = "handled" /\ last.frame.event = "task:status") =>
        LET data == last.frame.data
            found == {i \in DOMAIN wsClient.tasks : wsClient.tasks[i].id = data.taskId}
        IN  /\ Cardinality(found) = 1
            /\ "status" \in DOMAIN data =>
                  \A i \in found : wsClient.tasks[i].status = data.status

====
